---- MODULE Spec2Model ----
(***************************************************************************)
(* Gracelens: the poster canvas layer manager.                             *)
(*                                                                         *)
(* The model covers the pointer-interaction controller of PosterPreview    *)
(* (handleMouseDown, the drag effect with handleMouseMove / handleMouseUp  *)
(* and its document listeners) and the layer geometry held in the App's    *)
(* PosterData.  Beside it stand the render of PosterPreview (the keyword   *)
(* highlights of the verse and the text styles), the functions of          *)
(* geminiService and bibleService and the handlers of EditorPanel, each    *)
(* with a specification of its own:                                        *)
(*   Spec            the pointer events on the canvas;                     *)
(*   HighlightSpec   edits of the verse text, re-rendered each time;       *)
(*   StyleSpec       choices of text colour and text effect;               *)
(*   TranslateSpec   calls of translateText / translateReference;          *)
(*   FetchSpec       calls of fetchVerse and their attempts;               *)
(*   InputSpec       typing into the verse query with transliteration;     *)
(*   BackgroundSpec  generations of an AI background;                      *)
(*   EditorSpec      language changes and verse searches of EditorPanel;   *)
(*   SessionSpec     pointer events while a translation is pending;        *)
(*   PreviewSpec     the render among changes of the other fields;         *)
(*   CallbackSpec    the pointer events with or without onUpdateData;      *)
(*   KeysSpec        keystrokes into the query while a request is pending; *)
(*   LiveSpec        the handlers of EditorPanel with every call settling. *)
(*                                                                         *)
(* Strings that the code takes apart (verse text, colours, texts to        *)
(* translate) are sequences of one-character strings; strings it only      *)
(* compares or passes on are string values.                                *)
(*                                                                         *)
(* Numbers.  The code computes in floating point; the model computes the   *)
(* same expressions exactly, in fixed point:                               *)
(*   - positions and widths (percent of the canvas) are integers counting  *)
(*     hundredths of a percent point (50% is 5000);                        *)
(*   - the text scale is an integer counting thousandths (1.0 is 1000);    *)
(*   - pointer coordinates are screen pixels.                              *)
(* Pointer coordinates are multiples of 10 px and the display scale is 1   *)
(* or 2, so every division below is exact.                                 *)
(***************************************************************************)
EXTENDS Integers, Sequences, FiniteSets, TLC

NULL == "null"

\* ------------------------------------------------------------------ bounds

\* Pointer events (mouse-down, mousemove, mouseup, interruption) in one run.
MaxEvents == 3

\* Screen positions a pointer event may carry (clientX, clientY).
Points ==
    { [x |-> 0,   y |-> 0],
      [x |-> 10,  y |-> 0],
      [x |-> 10,  y |-> 10],
      [x |-> 20,  y |-> 0],
      [x |-> 100, y |-> 100] }

\* Values of the `scale` prop (display zoom); 1 is the default.
DisplayScales == {1, 2}

LayerIds == {"text", "logo", "photo"}
Actions  == {"drag", "resize", "scale"}

\* ------------------------------------------------------- canvas geometry

\* POSTER_DIMENSIONS[...] || { width: 400, height: 500 }
baseWidth  == 400
baseHeight == 500

\* ----------------------------------------------------------- arithmetic

\* A percentage p as model units (hundredths of a percent point).
Pct(p) == p * 100

Max(a, b) == IF a >= b THEN a ELSE b
Min(a, b) == IF a <= b THEN a ELSE b

\* Math.max(lo, Math.min(hi, v))
Clamp(lo, hi, v) == Max(lo, Min(hi, v))

\* JavaScript  v || d  on numbers: 0 is falsy.
OrDefault(v, d) == IF v = 0 THEN d ELSE v

\* deltaXPercent if the screen displacement were not divided by the scale.
DeltaXPercentUnscaled(e, start, sc) == ((e.x - start.x) * Pct(100)) \div baseWidth

\* deltaXPercent = ((e.clientX - dragStart.x) / scale / baseWidth) * 100
DeltaXPercent(e, start, sc) == ((e.x - start.x) * Pct(100)) \div (sc * baseWidth)
\* deltaYPercent = ((e.clientY - dragStart.y) / scale / baseHeight) * 100
DeltaYPercent(e, start, sc) == ((e.y - start.y) * Pct(100)) \div (sc * baseHeight)

\* Variant of ScaleDelta: the Y displacement is left out.
ScaleDeltaXOnly(e, start, sc) == ((e.x - start.x) * 5) \div sc

\* scaleDelta = (deltaX + deltaY) * 0.005, in thousandths
ScaleDelta(e, start, sc) == (((e.x - start.x) + (e.y - start.y)) * 5) \div sc

\* Bounds of the geometry fields, as the clamps of handleMouseMove state them.
PosMin        == 0
PosMax        == 10000
TextWidthMin  == 2000
TextWidthMax  == 10000
LogoWidthMin  == 500
LogoWidthMax  == 6000
PhotoWidthMin == 1000
PhotoWidthMax == 9000
TextScaleMin  == 500
TextScaleMax  == 3000

\* ----------------------------------------------------------------- strings
\* A string is a sequence of its characters.

UpperCaseLetters ==
    << "A", "B", "C", "D", "E", "F", "G", "H", "I", "J", "K", "L", "M",
       "N", "O", "P", "Q", "R", "S", "T", "U", "V", "W", "X", "Y", "Z" >>

LowerCaseLetters ==
    << "a", "b", "c", "d", "e", "f", "g", "h", "i", "j", "k", "l", "m",
       "n", "o", "p", "q", "r", "s", "t", "u", "v", "w", "x", "y", "z" >>

DigitChars == { "0", "1", "2", "3", "4", "5", "6", "7", "8", "9" }

LetterIndex(letters, ch) == CHOOSE i \in DOMAIN letters : letters[i] = ch
IsUpperCaseLetter(ch) == \E i \in DOMAIN UpperCaseLetters : UpperCaseLetters[i] = ch
IsLowerCaseLetter(ch) == \E i \in DOMAIN LowerCaseLetters : LowerCaseLetters[i] = ch

\* String.prototype.toLowerCase / toUpperCase, on one character and on a string
LowerChar(ch) ==
    IF IsUpperCaseLetter(ch) THEN LowerCaseLetters[LetterIndex(UpperCaseLetters, ch)] ELSE ch

UpperChar(ch) ==
    IF IsLowerCaseLetter(ch) THEN UpperCaseLetters[LetterIndex(LowerCaseLetters, ch)] ELSE ch

toLowerCase(s) == [i \in 1..Len(s) |-> LowerChar(s[i])]

\* The characters of s as one string value.
RECURSIVE Str(_)
Str(s) == IF s = <<>> THEN "" ELSE Head(s) \o Str(Tail(s))

\* The concatenation of a sequence of strings.
RECURSIVE Join(_)
Join(ss) == IF ss = <<>> THEN <<>> ELSE Head(ss) \o Join(Tail(ss))

\* \s and the punctuation class [.,!?;:"'-] of the two split patterns
IsSpace(ch) == ch \in { " ", "\n", "\t" }
IsPunctuation(ch) == ch \in { ",", ".", "!", "?", ";", ":", "\"", "'", "-" }
IsSeparator(ch) == IsSpace(ch) \/ IsPunctuation(ch)

\* What a character is to a split pattern: [\s,.!?;:"'-]+ has one class of
\* separators, (\s+|[.,!?;:"'-]+) has two, which it matches apart.
Kind(ch, pattern) ==
    CASE pattern = "words" -> IF IsSeparator(ch) THEN "separator" ELSE "token"
      [] pattern = "parts" -> IF IsSpace(ch) THEN "space"
                              ELSE IF IsPunctuation(ch) THEN "punctuation" ELSE "token"

\* The positions where a match of the split pattern starts, in order, and
\* the end (exclusive) of the match that starts at i.
MatchStarts(s, pattern) ==
    LET starts == { i \in 1..Len(s) :
                      /\ Kind(s[i], pattern) # "token"
                      /\ (i = 1 \/ Kind(s[i - 1], pattern) # Kind(s[i], pattern)) }
    IN  [ n \in 1..Cardinality(starts) |->
            CHOOSE p \in starts : Cardinality({ q \in starts : q < p }) = n - 1 ]

MatchEnd(s, pattern, i) ==
    CHOOSE j \in (i + 1)..(Len(s) + 1) :
        /\ (j = Len(s) + 1 \/ Kind(s[j], pattern) # Kind(s[i], pattern))
        /\ \A k \in i..(j - 1) : Kind(s[k], pattern) = Kind(s[i], pattern)

\* The token in front of the n-th match, or behind the last one.
TokenBefore(s, pattern, starts, n) ==
    LET from == IF n = 1 THEN 1 ELSE MatchEnd(s, pattern, starts[n - 1])
        to   == IF n > Len(starts) THEN Len(s) ELSE starts[n] - 1
    IN  SubSeq(s, from, to)

\* String.prototype.split with a pattern without a capturing group, and with
\* one: the tokens, and the tokens with the matches between them.
SplitTokens(s, pattern) ==
    LET starts == MatchStarts(s, pattern)
    IN  [ n \in 1..(Len(starts) + 1) |-> TokenBefore(s, pattern, starts, n) ]

SplitCapturing(s, pattern) ==
    LET starts == MatchStarts(s, pattern)
    IN  [ n \in 1..(2 * Len(starts) + 1) |->
            IF n % 2 = 1
            THEN TokenBefore(s, pattern, starts, (n + 1) \div 2)
            ELSE SubSeq(s, starts[n \div 2], MatchEnd(s, pattern, starts[n \div 2]) - 1) ]

\* -------------------------------------------------------- keyword highlights

AppModes == { "VERSE", "EVENT" }

commonStopWords ==
    { "the", "and", "that", "have", "for", "not", "with", "you", "this", "but", "his",
      "from", "they", "we", "say", "her", "she", "will", "an", "one", "would", "there",
      "their", "what", "so", "up", "out", "if", "about", "who", "get", "which", "go", "me",
      "when", "make", "can", "like", "time", "no", "just", "him", "know", "take", "people",
      "into", "year", "your", "good", "some", "could", "them", "see", "other", "than",
      "then", "now", "look", "only", "come", "its", "over", "think", "also", "back",
      "after", "use", "two", "how", "our", "work", "first", "well", "way", "even", "new",
      "want", "because", "any", "these", "give", "day", "most", "us", "are", "is", "was",
      "be", "been", "being" }

christianKeywords ==
    { "god", "jesus", "lord", "christ", "holy", "spirit", "father", "faith", "love",
      "grace", "mercy", "peace", "joy", "hope", "life", "light", "truth", "heart", "soul",
      "pray", "bless", "glory", "saved", "world", "son", "heaven", "believe", "eternal",
      "word", "king", "cross", "blood", "lamb", "shepherd" }

\* text.split(/[\s,.!?;:"'-]+/): the tokens between the separator runs; a
\* separator run at the start or the end leaves an empty token there.
words(text) == SplitTokens(text, "words")

\* The candidate of one token: its lower-cased form and its score.
candidate(w) ==
    LET clean == toLowerCase(w) IN
    IF Len(clean) < 3 THEN [ word |-> Str(clean), score |-> 0 ]
    ELSE [ word  |-> Str(clean),
           score |-> (IF Str(clean) \in christianKeywords THEN 20 ELSE 0)
                     + (IF Str(clean) \notin commonStopWords THEN Len(clean) ELSE 0)
                     + (IF Len(w) > 0 /\ w[1] = UpperChar(w[1]) /\ IsUpperCaseLetter(w[1])
                        THEN 5 ELSE 0) ]

candidates(text) == LET ws == words(text) IN [i \in 1..Len(ws) |-> candidate(ws[i])]

\* candidates.filter(c => c.score > 0)
Positive(cs) == SelectSeq(cs, LAMBDA c : c.score > 0)

\* One step of the sort if a later candidate went in front of its equals.
InsertByScoreInFront(s, c) ==
    LET k == Cardinality({ i \in 1..Len(s) : s[i].score > c.score })
    IN  SubSeq(s, 1, k) \o << c >> \o SubSeq(s, k + 1, Len(s))

\* One step of the stable sort by descending score: c goes behind every
\* candidate already placed whose score is at least c's.
InsertByScore(s, c) ==
    LET k == Cardinality({ i \in 1..Len(s) : s[i].score >= c.score })
    IN  SubSeq(s, 1, k) \o << c >> \o SubSeq(s, k + 1, Len(s))

\* .sort((a, b) => b.score - a.score)
RECURSIVE sorted(_)
sorted(cs) ==
    IF cs = <<>> THEN <<>>
    ELSE InsertByScore(sorted(SubSeq(cs, 1, Len(cs) - 1)), cs[Len(cs)])

\* The loop over sorted: add each word to the set until it has 3 members.
RECURSIVE topWords(_, _, _)
topWords(s, i, top) ==
    IF i > Len(s) \/ Cardinality(top) >= 3 THEN top
    ELSE topWords(s, i + 1, top \cup { s[i].word })

\* The highlight set if the mode were not looked at.
highlightedKeywordsInAnyMode(mode, verseText) ==
    IF verseText = <<>> THEN {}
    ELSE topWords(sorted(Positive(candidates(verseText))), 1, {})

\* The memoized highlight set of the render.
highlightedKeywords(mode, verseText) ==
    IF mode # "VERSE" \/ verseText = <<>> THEN {}
    ELSE topWords(sorted(Positive(candidates(verseText))), 1, {})

\* The split of the render if the pattern had no capturing group.
partsWithoutSeparators(verseText) == SplitTokens(verseText, "parts")

\* verseText.split(/(\s+|[.,!?;:"'-]+)/g): the tokens and, between them, the
\* separator matches (a run of white space or a run of punctuation).
parts(verseText) == SplitCapturing(verseText, "parts")

\* part.toLowerCase().replace(/[^a-z0-9]/g, '')
clean(part) ==
    SelectSeq(toLowerCase(part), LAMBDA ch : IsLowerCaseLetter(ch) \/ ch \in DigitChars)

isHighlight(part, keywords) == Len(clean(part)) > 2 /\ Str(clean(part)) \in keywords

\* HighlightedVerseText: the spans of the verse, each with its highlight flag;
\* nothing when there is no verse text.
HighlightedVerseText(verseText, keywords) ==
    IF verseText = <<>> THEN <<>>
    ELSE LET ps == parts(verseText)
         IN  [i \in 1..Len(ps) |-> [ part |-> ps[i], isHighlight |-> isHighlight(ps[i], keywords) ]]

\* ------------------------------------------------------------- verse texts

\* The App's initial verse text.
InitialVerseText ==
    << "F", "o", "r", " ", "G", "o", "d", " ", "s", "o", " ", "l", "o", "v", "e", "d", " ", "t",
       "h", "e", " ", "w", "o", "r", "l", "d", ",", " ", "t", "h", "a", "t", " ", "h", "e", " ",
       "g", "a", "v", "e", " ", "h", "i", "s", " ", "o", "n", "e", " ", "a", "n", "d", " ", "o",
       "n", "l", "y", " ", "S", "o", "n", ",", " ", "t", "h", "a", "t", " ", "w", "h", "o", "e",
       "v", "e", "r", " ", "b", "e", "l", "i", "e", "v", "e", "s", " ", "i", "n", " ", "h", "i",
       "m", " ", "s", "h", "o", "u", "l", "d", " ", "n", "o", "t", " ", "p", "e", "r", "i", "s",
       "h", ",", " ", "b", "u", "t", " ", "h", "a", "v", "e", " ", "e", "t", "e", "r", "n", "a",
       "l", " ", "l", "i", "f", "e", "." >>

\* For God so loved the world
ForGodSoLoved ==
    << "F", "o", "r", " ", "G", "o", "d", " ", "s", "o", " ", "l", "o", "v", "e", "d", " ", "t",
       "h", "e", " ", "w", "o", "r", "l", "d" >>

\* The LORD is my shepherd; I shall not want.
TheLordIsMyShepherd ==
    << "T", "h", "e", " ", "L", "O", "R", "D", " ", "i", "s", " ", "m", "y", " ", "s", "h", "e",
       "p", "h", "e", "r", "d", ";", " ", "I", " ", "s", "h", "a", "l", "l", " ", "n", "o", "t",
       " ", "w", "a", "n", "t", "." >>

\* Grace, grace - GRACE and Peace to you!
GraceAndPeace ==
    << "G", "r", "a", "c", "e", ",", " ", "g", "r", "a", "c", "e", " ", "-", " ", "G", "R", "A",
       "C", "E", " ", "a", "n", "d", " ", "P", "e", "a", "c", "e", " ", "t", "o", " ", "y", "o",
       "u", "!" >>

\* "(God) is love..." 1 John 4:8
GodIsLoveQuoted ==
    << "\"", "(", "G", "o", "d", ")", " ", "i", "s", " ", "l", "o", "v", "e", ".", ".", ".",
       "\"", " ", "1", " ", "J", "o", "h", "n", " ", "4", ":", "8" >>

\* Be it so
BeItSo ==
    << "B", "e", " ", "i", "t", " ", "s", "o" >>

\* Verse texts the preview is given.
SampleVerses == { InitialVerseText, ForGodSoLoved, TheLordIsMyShepherd, GraceAndPeace, GodIsLoveQuoted, BeItSo, <<>> }

\* What one edit of the verse text area appends.
PieceSpace == << " " >>
PieceStop == << "." >>
PieceGod == << "G", "o", "d" >>
PieceFor == << "f", "o", "r" >>
PieceThe == << "T", "h", "e" >>
PieceParen == << "(" >>

TypedPieces == { PieceSpace, PieceStop, PieceGod, PieceFor, PieceThe, PieceParen }

\* ------------------------------------------------------------ text styles

TextEffects ==
    { "none", "shadow-soft", "shadow-hard", "outline", "neon", "retro", "elegant", "glitch" }

\* The colour presets of the editor: light, dark and gradient.
LIGHT_COLORS ==
    { << "#", "F", "F", "F", "F", "F", "F" >>,
      << "#", "F", "1", "F", "5", "F", "9" >>,
      << "#", "F", "E", "F", "0", "8", "A" >>,
      << "#", "B", "A", "E", "6", "F", "D" >>,
      << "#", "F", "E", "C", "D", "D", "3" >>,
      << "#", "B", "B", "F", "7", "D", "0" >>,
      << "#", "E", "9", "D", "5", "F", "F" >> }

DARK_COLORS ==
    { << "#", "0", "0", "0", "0", "0", "0" >>,
      << "#", "3", "3", "4", "1", "5", "5" >>,
      << "#", "1", "E", "3", "A", "8", "A" >>,
      << "#", "8", "8", "1", "3", "3", "7" >>,
      << "#", "1", "4", "5", "3", "2", "D" >>,
      << "#", "5", "8", "1", "C", "8", "7" >>,
      << "#", "4", "5", "1", "A", "0", "3" >> }

GRADIENT_COLORS ==
    { << "l", "i", "n", "e", "a", "r", "-", "g", "r", "a", "d", "i", "e", "n", "t", "(", "t", "o",
         " ", "r", "i", "g", "h", "t", ",", " ", "#", "b", "f", "9", "5", "3", "f", ",", " ", "#",
         "f", "c", "f", "6", "b", "a", ",", " ", "#", "b", "3", "8", "7", "2", "8", ",", " ", "#",
         "f", "b", "f", "5", "b", "7", ",", " ", "#", "a", "a", "7", "7", "1", "c", ")" >>,
      << "l", "i", "n", "e", "a", "r", "-", "g", "r", "a", "d", "i", "e", "n", "t", "(", "t", "o",
         " ", "r", "i", "g", "h", "t", ",", " ", "#", "D", "7", "D", "7", "D", "7", ",", " ", "#",
         "F", "F", "F", "F", "F", "F", ",", " ", "#", "E", "A", "E", "A", "E", "A", ",", " ", "#",
         "C", "0", "C", "0", "C", "0", ")" >>,
      << "l", "i", "n", "e", "a", "r", "-", "g", "r", "a", "d", "i", "e", "n", "t", "(", "t", "o",
         " ", "r", "i", "g", "h", "t", ",", " ", "#", "f", "f", "9", "a", "9", "e", " ", "0", "%",
         ",", " ", "#", "f", "e", "c", "f", "e", "f", " ", "9", "9", "%", ",", " ", "#", "f", "e",
         "c", "f", "e", "f", " ", "1", "0", "0", "%", ")" >>,
      << "l", "i", "n", "e", "a", "r", "-", "g", "r", "a", "d", "i", "e", "n", "t", "(", "t", "o",
         " ", "r", "i", "g", "h", "t", ",", " ", "#", "4", "f", "a", "c", "f", "e", " ", "0", "%",
         ",", " ", "#", "0", "0", "f", "2", "f", "e", " ", "1", "0", "0", "%", ")" >>,
      << "l", "i", "n", "e", "a", "r", "-", "g", "r", "a", "d", "i", "e", "n", "t", "(", "1", "3",
         "5", "d", "e", "g", ",", " ", "#", "F", "F", "F", " ", "0", "%", ",", " ", "#", "0", "0",
         "0", " ", "1", "0", "0", "%", ")" >>,
      << "l", "i", "n", "e", "a", "r", "-", "g", "r", "a", "d", "i", "e", "n", "t", "(", "t", "o",
         " ", "r", "i", "g", "h", "t", ",", " ", "#", "f", "8", "3", "6", "0", "0", " ", "0", "%",
         ",", " ", "#", "f", "9", "d", "4", "2", "3", " ", "1", "0", "0", "%", ")" >> }

TextColors == LIGHT_COLORS \cup DARK_COLORS \cup GRADIENT_COLORS

\* String.prototype.startsWith
startsWith(s, prefix) == Len(s) >= Len(prefix) /\ SubSeq(s, 1, Len(prefix)) = prefix

LinearGradientPrefix == << "l", "i", "n", "e", "a", "r", "-", "g", "r", "a", "d", "i", "e", "n", "t" >>

\* { ...a, ...b }
Spread(a, b) ==
    [ f \in DOMAIN a \cup DOMAIN b |-> IF f \in DOMAIN b THEN b[f] ELSE a[f] ]

\* The base style of getTextEffectStyles: the colour as it is, or for a
\* gradient a transparent fill over the gradient clipped to the text.
BaseStyle(fontFamily, color) ==
    IF startsWith(color, LinearGradientPrefix)
    THEN [ fontFamily           |-> fontFamily,
           color                |-> "transparent",
           backgroundImage      |-> Str(color),
           backgroundClip       |-> "text",
           WebkitBackgroundClip |-> "text",
           WebkitTextFillColor  |-> "transparent" ]
    ELSE [ fontFamily |-> fontFamily,
           color      |-> Str(color) ]

\* The stroke colour of the outline if it were black for every colour.
OutlineStrokeAlwaysBlack(color) == "#000000"

\* The stroke colour of the outline effect.
OutlineStroke(color) == IF Str(color) = "#000000" THEN "#ffffff" ELSE "#000000"

getTextEffectStyles(fontFamily, effect, color) ==
    LET base == BaseStyle(fontFamily, color) IN
    CASE effect = "shadow-soft" -> Spread(base, [ textShadow |-> "0 4px 8px rgba(0,0,0,0.5)" ])
      [] effect = "shadow-hard" -> Spread(base, [ textShadow |-> "3px 3px 0px rgba(0,0,0,1)" ])
      [] effect = "outline" ->
           Spread(base, [ WebkitTextStroke |-> "1px " \o OutlineStroke(color),
                          textShadow       |-> "none" ])
      [] effect = "neon" ->
           Spread(base, [ textShadow |-> "0 0 5px #fff, 0 0 10px " \o Str(color)
                                           \o ", 0 0 20px " \o Str(color) ])
      [] effect = "retro" ->
           Spread(base, [ textShadow |-> "2px 2px 0 #d1d5db, 4px 4px 0 #9ca3af" ])
      [] effect = "elegant" ->
           Spread(base, [ textShadow |->
                            "0px 1px 0px rgba(255,255,255,0.4), 0px -1px 0px rgba(0,0,0,0.4)" ])
      [] effect = "glitch" ->
           Spread(base, [ textShadow |-> "2px 0 rgba(255,0,0,0.5), -2px 0 rgba(0,0,255,0.5)" ])
      [] OTHER -> base

\* The accent style if it took the text colour whatever it is.
accentStyleOfTextColor(fontFamily, textColor) ==
    [ fontFamily |-> fontFamily,
      color      |-> Str(textColor),
      opacity    |-> "0.9",
      textShadow |-> "0px 1px 2px rgba(0,0,0,0.5)" ]

\* The style of the verse reference and the custom name.
accentStyle(fontFamily, textColor) ==
    [ fontFamily |-> fontFamily,
      color      |-> IF startsWith(textColor, LinearGradientPrefix)
                     THEN "#ffffff" ELSE Str(textColor),
      opacity    |-> "0.9",
      textShadow |-> "0px 1px 2px rgba(0,0,0,0.5)" ]

\* ---------------------------------------------------- translation service

\* String.prototype.trim
trim(s) ==
    LET inner == { i \in 1..Len(s) : ~IsSpace(s[i]) }
    IN  IF inner = {} THEN <<>>
        ELSE SubSeq(s, CHOOSE i \in inner : \A j \in inner : i <= j,
                       CHOOSE i \in inner : \A j \in inner : j <= i)

\* getAiInstance: throws when process.env.API_KEY is not set, else creates a
\* provider client.
getAiInstance(hasKey) == IF hasKey THEN "client" ELSE "throws"

\* The provider has not answered (yet, or it was not asked).
NoResponse == [ kind |-> "none", text |-> <<>> ]

\* A call as it stands when the function has run up to its return or, with a
\* request sent, up to its await.
CallRecord(fn, text, lang, hasKey, status, result, clients, requests) ==
    [ fn |-> fn, text |-> text, lang |-> lang, hasKey |-> hasKey, status |-> status,
      result |-> result, clients |-> clients, requests |-> requests,
      response |-> NoResponse ]

\* translateText if it had no branch for English.
translateTextAlwaysAsks(text, targetLanguage, hasKey) ==
    IF getAiInstance(hasKey) = "throws"
    THEN CallRecord("translateText", text, targetLanguage, hasKey, "returned", text, 0, 0)
    ELSE CallRecord("translateText", text, targetLanguage, hasKey, "pending", <<>>, 1, 1)

translateText(text, targetLanguage, hasKey) ==
    IF targetLanguage = "English"
    THEN CallRecord("translateText", text, targetLanguage, hasKey, "returned", text, 0, 0)
    ELSE IF getAiInstance(hasKey) = "throws"
    THEN CallRecord("translateText", text, targetLanguage, hasKey, "returned", text, 0, 0)
    ELSE CallRecord("translateText", text, targetLanguage, hasKey, "pending", <<>>, 1, 1)

translateReference(reference, targetLanguage, hasKey) ==
    IF targetLanguage = "English"
    THEN CallRecord("translateReference", reference, targetLanguage, hasKey, "returned",
                    reference, 0, 0)
    ELSE IF getAiInstance(hasKey) = "throws"
    THEN CallRecord("translateReference", reference, targetLanguage, hasKey, "returned",
                    reference, 0, 0)
    ELSE CallRecord("translateReference", reference, targetLanguage, hasKey, "pending",
                    <<>>, 1, 1)

\* The return of the call if it had no fallback to the input on an empty text.
ResultOfTrimmedText(text, response) ==
    IF response.kind = "text" THEN trim(response.text) ELSE text

\* What the call returns once generateContent has settled:
\* response.text?.trim() || text, and text when the request was rejected.
ResultOf(text, response) ==
    IF response.kind = "text" /\ trim(response.text) # <<>> THEN trim(response.text) ELSE text

\* ------------------------------------------------------------- the render

\* The App's initial PosterData (content fields).
InitialContent ==
    [ mode       |-> "VERSE",
      verseText  |-> InitialVerseText,
      fontFamily |-> "AVAILABLE_FONTS[1].value",
      textColor  |-> << "#", "F", "F", "F", "F", "F", "F" >>,
      textEffect |-> "shadow-soft",
      eventTitle   |-> << "S", "u", "n", "d", "a", "y", " ", "S", "e", "r", "v", "i", "c", "e" >>,
      eventDetails |-> <<>>,
      language   |-> "English",
      verseReference        |-> << "J", "o", "h", "n", " ", "3", ":", "1", "6" >>,
      verseReferenceEnglish |-> << "J", "o", "h", "n", " ", "3", ":", "1", "6" >>,
      backgroundImageUrl    |-> "DEFAULT_BACKGROUNDS[NATURE]" ]

\* What one render of PosterPreview computes from the content.
Render(c) ==
    LET keywords == highlightedKeywords(c.mode, c.verseText) IN
    [ textStyle   |-> getTextEffectStyles(c.fontFamily, c.textEffect, c.textColor),
      accentStyle |-> accentStyle(c.fontFamily, c.textColor),
      highlightedKeywords |-> keywords,
      verse |-> IF c.mode = "VERSE" THEN HighlightedVerseText(c.verseText, keywords) ELSE <<>> ]

\* The render after an update of the content: the highlight set is memoized on
\* the verse text and the mode, and the spans of the verse, which are computed
\* from the verse text, the mode and that set alone, are the same as before
\* when none of these changed.
Rerender(v, prev, c) ==
    IF c.verseText = prev.verseText /\ c.mode = prev.mode
    THEN [ textStyle   |-> getTextEffectStyles(c.fontFamily, c.textEffect, c.textColor),
           accentStyle |-> accentStyle(c.fontFamily, c.textColor),
           highlightedKeywords |-> v.highlightedKeywords,
           verse |-> v.verse ]
    ELSE Render(c)

\* ------------------------------------------------------------ the state

VARIABLES
    data,               \* App: the geometry fields of PosterData
    activeDragId,       \* PosterPreview useState
    dragAction,         \* PosterPreview useState
    dragStart,          \* PosterPreview useState
    initialScale,       \* PosterPreview useState
    initialWidth,       \* PosterPreview useState
    scale,              \* PosterPreview prop (display scale)
    onUpdateData,       \* PosterPreview prop: is the callback supplied
    mounted,            \* is PosterPreview mounted
    moveListeners,      \* document 'mousemove' listeners, in registration order
    upListeners,        \* document 'mouseup' listeners, in registration order
    effectHandler,      \* the handlers the latest effect run registered: <<c>> or <<>>
    buttonHeld,         \* environment: a mouse button is physically down
    events,             \* history: the kinds of the events so far, in order
    pointer,            \* history: position of the last pointer event
    sessionOrigin,      \* history: pointer position of the last mouse-down
    sessionBase,        \* history: data at the last mouse-down
    sessionMoves,       \* history: move events handled in the session
    clampHit,           \* history: a move of the session ran into a bound
    content,            \* App: the content fields of PosterData
    view,               \* PosterPreview: what the latest render computed
    typed,              \* history: edits of the verse text since it was loaded
    calls,              \* the calls of the translation service so far, in order
    fetches,            \* the calls of fetchVerse so far, in order
    tasks,              \* the invocations of the asynchronous handlers so far, in order
    ui                  \* useState of the App and of EditorPanel, and the alerts shown

\* The kind of the last event.
LastEvent == IF events = <<>> THEN "none" ELSE events[Len(events)]

ctrl == <<activeDragId, dragAction, dragStart, initialScale, initialWidth>>
hist == <<events, pointer, sessionOrigin, sessionBase, sessionMoves, clampHit>>
canvas == <<data, activeDragId, dragAction, dragStart, initialScale, initialWidth,
            scale, onUpdateData, mounted, moveListeners, upListeners, effectHandler,
            buttonHeld, events, pointer, sessionOrigin, sessionBase, sessionMoves,
            clampHit>>
edit == <<content, view, typed>>
panel == <<fetches, tasks, ui>>
vars == <<canvas, edit, calls, panel>>

\* The App's initial PosterData (geometry fields).
InitialData ==
    [ textPosition  |-> [x |-> Pct(50), y |-> Pct(50)],
      textWidth     |-> Pct(80),
      textScale     |-> 1000,
      logoPosition  |-> [x |-> Pct(10), y |-> Pct(10)],
      logoWidth     |-> Pct(16),
      photoPosition |-> [x |-> Pct(90), y |-> Pct(10)],
      photoWidth    |-> Pct(24) ]

\* updateData: setData(prev => ({ ...prev, ...newData }))
updateData(prev, newData) ==
    [f \in DOMAIN prev |-> IF f \in DOMAIN newData THEN newData[f] ELSE prev[f]]

\* What the handlers created by one render close over.
Closure(id, act, start, iScale, iWidth, d) ==
    [ activeDragId |-> id, dragAction |-> act, dragStart |-> start,
      initialScale |-> iScale, initialWidth |-> iWidth, data |-> d ]

\* ------------------------------------------------- handleMouseMove, by case

\* Variant of TextDragPatch: the update carries the new x with the old y.
TextDragPatchXOnly(c, e, sc) ==
    [ textPosition |->
        [ x |-> Clamp(PosMin, PosMax, c.data.textPosition.x + DeltaXPercent(e, c.dragStart, sc)),
          y |-> c.data.textPosition.y ] ]

\* text, 'drag': textPosition from the captured data plus the percentage delta
TextDragPatch(c, e, sc) ==
    [ textPosition |->
        [ x |-> Clamp(PosMin, PosMax, c.data.textPosition.x + DeltaXPercent(e, c.dragStart, sc)),
          y |-> Clamp(PosMin, PosMax, c.data.textPosition.y + DeltaYPercent(e, c.dragStart, sc)) ] ]

\* Variant of TextResizePatch: the delta is added to the current width.
TextResizePatchFromCurrent(c, e, sc) ==
    [ textWidth |->
        Clamp(TextWidthMin, TextWidthMax, c.data.textWidth + DeltaXPercent(e, c.dragStart, sc)) ]

\* text, 'resize': textWidth from initialWidth plus the X percentage delta
TextResizePatch(c, e, sc) ==
    [ textWidth |->
        Clamp(TextWidthMin, TextWidthMax, c.initialWidth + DeltaXPercent(e, c.dragStart, sc)) ]

\* Variant of TextScalePatch: the new scale is written without the clamp.
TextScalePatchUnclamped(c, e, sc) ==
    [ textScale |-> c.initialScale + ScaleDelta(e, c.dragStart, sc) ]

\* text, 'scale': textScale from initialScale plus 0.005 per canvas pixel of X + Y
TextScalePatch(c, e, sc) ==
    [ textScale |->
        Clamp(TextScaleMin, TextScaleMax, c.initialScale + ScaleDelta(e, c.dragStart, sc)) ]

\* logo, 'drag': (data.logoPosition?.x || 10) + deltaXPercent, likewise y
LogoDragPatch(c, e, sc) ==
    [ logoPosition |->
        [ x |-> Clamp(PosMin, PosMax,
                      OrDefault(c.data.logoPosition.x, Pct(10)) + DeltaXPercent(e, c.dragStart, sc)),
          y |-> Clamp(PosMin, PosMax,
                      OrDefault(c.data.logoPosition.y, Pct(10)) + DeltaYPercent(e, c.dragStart, sc)) ] ]

\* Variant of LogoWidthPatch: the new width is written without the clamp.
LogoWidthPatchUnclamped(c, e, sc) ==
    [ logoWidth |-> c.initialWidth + DeltaXPercent(e, c.dragStart, sc) ]

\* logo, 'resize' or 'scale': logoWidth from initialWidth plus the X percentage delta
LogoWidthPatch(c, e, sc) ==
    [ logoWidth |->
        Clamp(LogoWidthMin, LogoWidthMax, c.initialWidth + DeltaXPercent(e, c.dragStart, sc)) ]

\* photo, 'drag': (data.photoPosition?.x || 90) + deltaXPercent, (y || 10) + deltaYPercent
PhotoDragPatch(c, e, sc) ==
    [ photoPosition |->
        [ x |-> Clamp(PosMin, PosMax,
                      OrDefault(c.data.photoPosition.x, Pct(90)) + DeltaXPercent(e, c.dragStart, sc)),
          y |-> Clamp(PosMin, PosMax,
                      OrDefault(c.data.photoPosition.y, Pct(10)) + DeltaYPercent(e, c.dragStart, sc)) ] ]

\* Variant of PhotoWidthPatch: the photo is resized about its left edge, so
\* the update also moves its centre by half the delta.
PhotoWidthPatchMovesCentre(c, e, sc) ==
    [ photoWidth |->
        Clamp(PhotoWidthMin, PhotoWidthMax, c.initialWidth + DeltaXPercent(e, c.dragStart, sc)),
      photoPosition |->
        [ x |-> Clamp(PosMin, PosMax,
                      c.data.photoPosition.x + DeltaXPercent(e, c.dragStart, sc) \div 2),
          y |-> c.data.photoPosition.y ] ]

\* photo, 'resize' or 'scale': photoWidth from initialWidth plus the X percentage delta
PhotoWidthPatch(c, e, sc) ==
    [ photoWidth |->
        Clamp(PhotoWidthMin, PhotoWidthMax, c.initialWidth + DeltaXPercent(e, c.dragStart, sc)) ]

\* The argument handleMouseMove passes to onUpdateData.
MovePatch(c, e, sc) ==
    CASE c.activeDragId = "text"  /\ c.dragAction = "drag"   -> TextDragPatch(c, e, sc)
      [] c.activeDragId = "text"  /\ c.dragAction = "resize" -> TextResizePatch(c, e, sc)
      [] c.activeDragId = "text"  /\ c.dragAction = "scale"  -> TextScalePatch(c, e, sc)
      [] c.activeDragId = "logo"  /\ c.dragAction = "drag"   -> LogoDragPatch(c, e, sc)
      [] c.activeDragId = "logo"  /\ c.dragAction # "drag"   -> LogoWidthPatch(c, e, sc)
      [] c.activeDragId = "photo" /\ c.dragAction = "drag"   -> PhotoDragPatch(c, e, sc)
      [] c.activeDragId = "photo" /\ c.dragAction # "drag"   -> PhotoWidthPatch(c, e, sc)

\* Variant of RebasedDragStart: the reference point is re-based on every move
\* event, whatever the action.
RebasedAlways(c, e, cur) == e

\* if (dragAction === 'drag') setDragStart({ x: e.clientX, y: e.clientY })
RebasedDragStart(c, e, cur) == IF c.dragAction = "drag" THEN e ELSE cur

\* Variant of handleMouseMove: the reference point is re-based before the
\* callback is looked at.
handleMouseMoveRebasesFirst(c, e, st, sc, hasCallback) ==
    IF c.activeDragId = NULL
    THEN st
    ELSE IF ~hasCallback
    THEN [ st EXCEPT !.dragStart = RebasedDragStart(c, e, st.dragStart), !.rendered = TRUE ]
    ELSE [ data      |-> updateData(st.data, MovePatch(c, e, sc)),
           dragStart |-> RebasedDragStart(c, e, st.dragStart),
           rendered  |-> TRUE ]

\* One call of a handleMouseMove closure c on event e.  st carries the state
\* the setters write: data, dragStart, and whether a setter ran (a re-render
\* is due).
handleMouseMove(c, e, st, sc, hasCallback) ==
    IF c.activeDragId = NULL \/ ~hasCallback
    THEN st
    ELSE [ data      |-> updateData(st.data, MovePatch(c, e, sc)),
           dragStart |-> RebasedDragStart(c, e, st.dragStart),
           rendered  |-> TRUE ]

\* The document dispatches a mousemove to every registered listener, in order.
RECURSIVE DispatchMove(_, _, _, _, _)
DispatchMove(ls, e, st, sc, hasCallback) ==
    IF ls = <<>>
    THEN st
    ELSE DispatchMove(Tail(ls), e, handleMouseMove(Head(ls), e, st, sc, hasCallback),
                      sc, hasCallback)

\* Variant of handleMouseUp: the session is left as it is.
handleMouseUpKeepsSession(id) == id

\* handleMouseUp: setActiveDragId(null)
handleMouseUp(id) == NULL

\* The document dispatches a mouseup to every registered listener, in order.
RECURSIVE DispatchUp(_, _)
DispatchUp(ls, id) ==
    IF ls = <<>> THEN id ELSE DispatchUp(Tail(ls), handleMouseUp(id))

\* ------------------------------------------------------ the drag effect

\* document.removeEventListener(type, h): drops h if it is registered.
RemoveListener(ls, h) ==
    IF \E i \in 1..Len(ls) : ls[i] = h
    THEN LET k == CHOOSE i \in 1..Len(ls) :
                    ls[i] = h /\ \A j \in 1..(i - 1) : ls[j] # h
         IN  SubSeq(ls, 1, k - 1) \o SubSeq(ls, k + 1, Len(ls))
    ELSE ls

\* Variant of EffectCleanup: the effect returns no cleanup.
EffectCleanupMissing(ls, prevH) == ls

\* The cleanup the previous effect run returned: removes the handlers that run
\* registered (prevH), if any.
EffectCleanup(ls, prevH) == IF prevH = <<>> THEN ls ELSE RemoveListener(ls, prevH[1])

\* if (activeDragId) document.addEventListener(type, handler)
EffectRegister(ls, c) == IF c.activeDragId # NULL THEN Append(ls, c) ELSE ls

\* A re-render whose dependencies changed: cleanup of the previous run, then
\* the effect body with the new closure c.
RunEffect(ls, prevH, c) == EffectRegister(EffectCleanup(ls, prevH), c)

\* The handlers the effect run with closure c leaves registered (what its own
\* cleanup will remove).
Registered(c) == IF c.activeDragId # NULL THEN <<c>> ELSE <<>>

\* ------------------------------------------------------------- actions

CanvasInit ==
    /\ data = InitialData
    /\ activeDragId = NULL
    /\ dragAction = "drag"
    /\ dragStart = [x |-> 0, y |-> 0]
    /\ initialScale = 1000
    /\ initialWidth = 0
    /\ scale \in DisplayScales
    /\ onUpdateData = TRUE
    /\ mounted = TRUE
    /\ moveListeners = <<>>
    /\ upListeners = <<>>
    /\ effectHandler = <<>>
    /\ buttonHeld = FALSE
    /\ events = <<>>
    /\ pointer = [x |-> 0, y |-> 0]
    /\ sessionOrigin = [x |-> 0, y |-> 0]
    /\ sessionBase = InitialData
    /\ sessionMoves = 0
    /\ clampHit = FALSE

\* useState of the App (isGeneratingBg) and of EditorPanel (verseQuery,
\* isSearching, isTranslating, isTransliterationEnabled); nothing is in flight and
\* no alert was shown.  apiKey: is process.env.API_KEY set in this build.
InitialUi ==
    [ apiKey         |-> TRUE,
      verseQuery     |-> <<>>,
      isSearching    |-> FALSE,
      isTranslating  |-> FALSE,
      isGeneratingBg |-> FALSE,
      isTransliterationEnabled |-> TRUE,
      alerts         |-> <<>> ]

PanelInit ==
    /\ fetches = <<>>
    /\ tasks = <<>>
    /\ ui = InitialUi

\* The state after the App, EditorPanel and PosterPreview are constructed.
Init ==
    /\ CanvasInit
    /\ content = InitialContent
    /\ view = Render(InitialContent)
    /\ typed = 0
    /\ calls = <<>>
    /\ PanelInit

\* initialScale if the mouse-down kept the value of the session before.
CapturedScaleStale(id, action, d, cur) == cur

\* initialScale after handleMouseDown(id, action)
CapturedScale(id, action, d, cur) ==
    IF action = "scale" /\ id = "text" THEN OrDefault(d.textScale, 1000) ELSE cur

\* initialWidth if only the resize handle captured the width.
CapturedWidthResizeOnly(id, action, d, cur) ==
    IF action = "resize"
    THEN CASE id = "text"  -> d.textWidth
           [] id = "logo"  -> OrDefault(d.logoWidth, Pct(16))
           [] id = "photo" -> OrDefault(d.photoWidth, Pct(24))
    ELSE cur

\* initialWidth after handleMouseDown(id, action)
CapturedWidth(id, action, d, cur) ==
    IF action = "resize" \/ (action = "scale" /\ id # "text")
    THEN CASE id = "text"  -> d.textWidth
           [] id = "logo"  -> OrDefault(d.logoWidth, Pct(16))
           [] id = "photo" -> OrDefault(d.photoWidth, Pct(24))
    ELSE cur

\* The session state handleMouseDown(e, id, action) sets, given the current one.
handleMouseDown(cur, id, action, e, d) ==
    Closure(id, action, e,
            CapturedScale(id, action, d, cur.initialScale),
            CapturedWidth(id, action, d, cur.initialWidth), d)

\* The onMouseDown handlers on the way up from the element under the pointer
\* to the layer's root, each with the action it passes on: the width and the
\* scale handle are children of the move region.
HandlersOnPath(target) == IF target = "drag" THEN << "drag" >> ELSE << target, "drag" >>

\* Variant of stopPropagation: the event bubbles on to the handlers above.
stopPropagationMissing(above) == above

\* e.stopPropagation(): none of the handlers above runs.
stopPropagation(above) == <<>>

\* The mouse-down is dispatched along the path; every handler that runs is
\* the one of the current render, and its setters are applied in order.
RECURSIVE DispatchDown(_, _, _, _, _)
DispatchDown(path, cur, id, e, d) ==
    IF path = <<>>
    THEN cur
    ELSE DispatchDown(stopPropagation(Tail(path)),
                      handleMouseDown(cur, id, Head(path), e, d), id, e, d)

\* The render's current closure.
Current == Closure(activeDragId, dragAction, dragStart, initialScale, initialWidth, data)

\* A mouse-down on layer id: on its move region ('drag') or on one of its
\* handles ('resize', 'scale').
MouseDown(id, action, e) ==
    /\ mounted
    /\ Len(events) < MaxEvents
    /\ LET c == DispatchDown(HandlersOnPath(action), Current, id, e, data) IN
        /\ activeDragId' = c.activeDragId
        /\ dragAction' = c.dragAction
        /\ dragStart' = c.dragStart
        /\ initialScale' = c.initialScale
        /\ initialWidth' = c.initialWidth
        /\ moveListeners' = RunEffect(moveListeners, effectHandler, c)
        /\ upListeners' = RunEffect(upListeners, effectHandler, c)
        /\ effectHandler' = Registered(c)
    /\ buttonHeld' = TRUE
    /\ events' = Append(events, "down")
    /\ pointer' = e
    /\ sessionOrigin' = e
    /\ sessionBase' = data
    /\ sessionMoves' = 0
    /\ clampHit' = FALSE
    /\ UNCHANGED <<edit, calls, panel>>
    /\ UNCHANGED <<data, scale, onUpdateData, mounted>>

\* The layer's position plus the percentage delta of event e, before clamping.
RawMove(id, d, e, start, sc) ==
    LET pos == CASE id = "text"  -> d.textPosition
                 [] id = "logo"  -> d.logoPosition
                 [] id = "photo" -> d.photoPosition
    IN  [ x |-> pos.x + DeltaXPercent(e, start, sc),
          y |-> pos.y + DeltaYPercent(e, start, sc) ]

OutOfRange(p) == p.x < PosMin \/ p.x > PosMax \/ p.y < PosMin \/ p.y > PosMax

\* The value a resize or scale handler computes for event e, before clamping,
\* is outside the bounds of the field it writes.
RawValueOutOfRange(id, action, e, start, iScale, iWidth, sc) ==
    IF action = "scale" /\ id = "text"
    THEN iScale + ScaleDelta(e, start, sc) \notin TextScaleMin..TextScaleMax
    ELSE LET raw == iWidth + DeltaXPercent(e, start, sc) IN
         CASE id = "text"  -> raw \notin TextWidthMin..TextWidthMax
           [] id = "logo"  -> raw \notin LogoWidthMin..LogoWidthMax
           [] id = "photo" -> raw \notin PhotoWidthMin..PhotoWidthMax

\* A mousemove on the document at e.
MouseMove(e) ==
    /\ mounted
    /\ Len(events) < MaxEvents
    /\ LET st == DispatchMove(moveListeners, e,
                              [data |-> data, dragStart |-> dragStart, rendered |-> FALSE],
                              scale, onUpdateData)
           c  == Closure(activeDragId, dragAction, st.dragStart, initialScale,
                         initialWidth, st.data)
       IN
        /\ data' = st.data
        /\ dragStart' = st.dragStart
        /\ moveListeners' =
             IF st.rendered THEN RunEffect(moveListeners, effectHandler, c) ELSE moveListeners
        /\ upListeners' =
             IF st.rendered THEN RunEffect(upListeners, effectHandler, c) ELSE upListeners
        /\ effectHandler' = IF st.rendered THEN Registered(c) ELSE effectHandler
        /\ sessionMoves' = IF st.rendered THEN sessionMoves + 1 ELSE sessionMoves
    /\ clampHit' =
         (clampHit \/ ( /\ activeDragId # NULL
                        /\ dragAction = "drag"
                        /\ OutOfRange(RawMove(activeDragId, data, e, dragStart, scale)) )
                   \/ ( /\ activeDragId # NULL
                        /\ dragAction # "drag"
                        /\ RawValueOutOfRange(activeDragId, dragAction, e, dragStart,
                                              initialScale, initialWidth, scale) ))
    /\ events' = Append(events, "move")
    /\ pointer' = e
    /\ UNCHANGED <<edit, calls, panel>>
    /\ UNCHANGED <<activeDragId, dragAction, initialScale, initialWidth, scale,
                   onUpdateData, mounted, buttonHeld, sessionOrigin, sessionBase>>

\* The button is released and the document receives the mouseup.
MouseUp ==
    /\ mounted
    /\ buttonHeld
    /\ Len(events) < MaxEvents
    /\ LET id == DispatchUp(upListeners, activeDragId)
           c  == Closure(id, dragAction, dragStart, initialScale, initialWidth, data)
           rendered == id # activeDragId
       IN
        /\ activeDragId' = id
        /\ moveListeners' =
             IF rendered THEN RunEffect(moveListeners, effectHandler, c) ELSE moveListeners
        /\ upListeners' =
             IF rendered THEN RunEffect(upListeners, effectHandler, c) ELSE upListeners
        /\ effectHandler' = IF rendered THEN Registered(c) ELSE effectHandler
    /\ buttonHeld' = FALSE
    /\ events' = Append(events, "up")
    /\ UNCHANGED <<edit, calls, panel>>
    /\ UNCHANGED <<data, dragAction, dragStart, initialScale, initialWidth, scale,
                   onUpdateData, mounted, pointer, sessionOrigin, sessionBase,
                   sessionMoves, clampHit>>

\* The gesture is interrupted: the button is released but no mouseup reaches
\* the document (the browser starts a native drag of one of the layer's
\* images, the window loses focus, the release happens outside the page).
\* The effect listens for mousemove and mouseup only, so no code runs.
GestureInterrupted ==
    /\ mounted
    /\ buttonHeld
    /\ Len(events) < MaxEvents
    /\ buttonHeld' = FALSE
    /\ events' = Append(events, "lost")
    /\ UNCHANGED <<edit, calls, panel>>
    /\ UNCHANGED <<data, ctrl, scale, onUpdateData, mounted, moveListeners, upListeners,
                   effectHandler, pointer, sessionOrigin, sessionBase,
                   sessionMoves,
                   clampHit>>

\* PosterPreview unmounts: the cleanup of the latest effect run; the
\* component's own state is discarded with it.
Unmount ==
    /\ mounted
    /\ mounted' = FALSE
    /\ moveListeners' = EffectCleanup(moveListeners, effectHandler)
    /\ upListeners' = EffectCleanup(upListeners, effectHandler)
    /\ effectHandler' = <<>>
    /\ activeDragId' = NULL
    /\ dragAction' = "drag"
    /\ dragStart' = [x |-> 0, y |-> 0]
    /\ initialScale' = 1000
    /\ initialWidth' = 0
    /\ buttonHeld' = FALSE
    /\ events' = <<"unmount">>
    /\ pointer' = [x |-> 0, y |-> 0]
    /\ sessionOrigin' = [x |-> 0, y |-> 0]
    /\ sessionBase' = data
    /\ sessionMoves' = 0
    /\ clampHit' = FALSE
    /\ UNCHANGED <<edit, calls, panel>>
    /\ UNCHANGED <<data, scale, onUpdateData>>

Next ==
    \/ \E id \in LayerIds, action \in Actions, e \in Points : MouseDown(id, action, e)
    \/ \E e \in Points : MouseMove(e)
    \/ MouseUp
    \/ GestureInterrupted
    \/ Unmount

Spec == Init /\ [][Next]_vars

\* ------------------------------------------------- editing the verse text

MaxTyped == 2

\* PosterPreview is rendered with a verse text of the samples, in either mode.
HighlightInit ==
    /\ CanvasInit
    /\ scale = 1
    /\ \E m \in AppModes, t \in SampleVerses :
         content = [InitialContent EXCEPT !.mode = m, !.verseText = t]
    /\ view = Render(content)
    /\ typed = 0
    /\ calls = <<>>
    /\ PanelInit

\* The verse text area's onChange: the edited text replaces the verse text.
TypeVerseText(piece) ==
    /\ typed < MaxTyped
    /\ content' = updateData(content, [verseText |-> content.verseText \o piece])
    /\ view' = Rerender(view, content, content')
    /\ typed' = typed + 1
    /\ UNCHANGED <<canvas, calls, panel>>

HighlightNext == \E piece \in TypedPieces : TypeVerseText(piece)

HighlightSpec == HighlightInit /\ [][HighlightNext]_vars

\* ------------------------------------------------- editing the text style

\* A click on a colour preset.
SetTextColor(color) ==
    /\ content' = updateData(content, [textColor |-> color])
    /\ view' = Rerender(view, content, content')
    /\ UNCHANGED <<canvas, typed, calls, panel>>

\* A click on a text effect.
SetTextEffect(effect) ==
    /\ content' = updateData(content, [textEffect |-> effect])
    /\ view' = Rerender(view, content, content')
    /\ UNCHANGED <<canvas, typed, calls, panel>>

StyleNext ==
    \/ \E color \in TextColors : SetTextColor(color)
    \/ \E effect \in TextEffects : SetTextEffect(effect)

StyleSpec == Init /\ [][StyleNext]_vars

\* ------------------------------------------- calling the translation service

MaxCalls == 1

\* Texts and references handed to the service.
TextGrace == << "G", "r", "a", "c", "e", " ", "a", "n", "d", " ", "p", "e", "a", "c", "e" >>
TextJohn == << " ", "J", "o", "h", "n", " ", "3", ":", "1", "6", " " >>

ServiceTexts == { <<>>, TextGrace, TextJohn }

TargetLanguages == { "English", "english", "Hindi" }

\* What the provider can answer: a text, a response without text, a rejection.
ResponseAnugraha == << " ", "A", "n", "u", "g", "r", "a", "h", "a", " ", "\n" >>
ResponseBlank == << " ", " " >>

ProviderResponses ==
    { [ kind |-> "text", text |-> ResponseAnugraha ],
      [ kind |-> "text", text |-> ResponseBlank ],
      [ kind |-> "text", text |-> <<>> ],
      [ kind |-> "undefined", text |-> <<>> ],
      [ kind |-> "rejected", text |-> <<>> ] }

\* A caller awaits translateText(text, targetLanguage).
CallTranslateText(text, targetLanguage, hasKey) ==
    /\ Len(calls) < MaxCalls
    /\ calls' = Append(calls, translateText(text, targetLanguage, hasKey))
    /\ UNCHANGED <<canvas, edit, panel>>

\* A caller awaits translateReference(reference, targetLanguage).
CallTranslateReference(reference, targetLanguage, hasKey) ==
    /\ Len(calls) < MaxCalls
    /\ calls' = Append(calls, translateReference(reference, targetLanguage, hasKey))
    /\ UNCHANGED <<canvas, edit, panel>>

\* The provider settles the request of call i.
ProviderSettles(i, response) ==
    /\ calls[i].status = "pending"
    /\ calls' = [calls EXCEPT ![i].status = "returned",
                              ![i].result = ResultOf(calls[i].text, response),
                              ![i].response = response]
    /\ UNCHANGED <<canvas, edit, panel>>

TranslateNext ==
    \/ \E text \in ServiceTexts, lang \in TargetLanguages, hasKey \in BOOLEAN :
         CallTranslateText(text, lang, hasKey)
    \/ \E text \in ServiceTexts, lang \in TargetLanguages, hasKey \in BOOLEAN :
         CallTranslateReference(text, lang, hasKey)
    \/ \E i \in 1..Len(calls), response \in ProviderResponses : ProviderSettles(i, response)

TranslateSpec == Init /\ [][TranslateNext]_vars

\* ------------------------------------------------------------ type check

TypeOK ==
    /\ activeDragId \in LayerIds \cup {NULL}
    /\ dragAction \in Actions
    /\ dragStart \in Points \cup {[x |-> 0, y |-> 0]}
    /\ scale \in DisplayScales
    /\ Len(moveListeners) = Len(upListeners)
    /\ Len(events) <= MaxEvents

\* ------------------------------------------------- reading the geometry

PositionOf(d, id) ==
    CASE id = "text"  -> d.textPosition
      [] id = "logo"  -> d.logoPosition
      [] id = "photo" -> d.photoPosition

WidthOf(d, id) ==
    CASE id = "text"  -> d.textWidth
      [] id = "logo"  -> d.logoWidth
      [] id = "photo" -> d.photoWidth

WidthMin(id) ==
    CASE id = "text" -> TextWidthMin [] id = "logo" -> LogoWidthMin [] id = "photo" -> PhotoWidthMin

WidthMax(id) ==
    CASE id = "text" -> TextWidthMax [] id = "logo" -> LogoWidthMax [] id = "photo" -> PhotoWidthMax

Dragging == activeDragId # NULL
Idle     == activeDragId = NULL

\* The session moves a layer / sets a width / sets the text scale.
MoveSession   == Dragging /\ dragAction = "drag"
WidthSession  == Dragging /\ (dragAction = "resize" \/ (dragAction = "scale" /\ activeDragId # "text"))
ScaleSession  == Dragging /\ dragAction = "scale" /\ activeDragId = "text"

\* Total pointer displacement of the session, as percentages and as scale.
SessionDX == DeltaXPercent(pointer, sessionOrigin, scale)
SessionDY == DeltaYPercent(pointer, sessionOrigin, scale)

\* ================================================================ claims

\* ---------------------------------------------------------------- C1
\* C1: after any sequence of mouse-down, mousemove and mouseup events the
\* position of each of the three layers is within [0,100] on both axes, and a
\* Move event whose delta would take a coordinate of the dragged layer below 0
\* or above 100 leaves that coordinate at the bound it crossed.
PositionsInRange ==
    \A id \in LayerIds :
        /\ PositionOf(data, id).x \in PosMin..PosMax
        /\ PositionOf(data, id).y \in PosMin..PosMax

ClampedToNearest(raw, new) ==
    /\ (raw > PosMax => new = PosMax)
    /\ (raw < PosMin => new = PosMin)

C1_MoveClampsToNearestBound ==
    /\ []PositionsInRange
    /\ [][ (MoveSession /\ events' = Append(events, "move")) =>
              LET raw == RawMove(activeDragId, data, pointer', dragStart, scale)
                  new == PositionOf(data', activeDragId)
              IN  /\ ClampedToNearest(raw.x, new.x)
                  /\ ClampedToNearest(raw.y, new.y) ]_vars

\* ---------------------------------------------------------------- C2
\* C2: starting from the initial document, after any sequence of events the
\* text width is within [20,100], the logo width within [5,60] and the photo
\* width within [10,90].
C2_WidthsInBounds ==
    \A id \in LayerIds : WidthOf(data, id) \in WidthMin(id)..WidthMax(id)

\* A width session whose move event asked for a width outside the layer's
\* bounds, for the logo and for the text.
C2_Witness ==
    /\ WidthSession
    /\ LastEvent = "move"
    /\ \/ /\ activeDragId = "logo"
          /\ sessionBase.logoWidth + SessionDX < LogoWidthMin
          /\ data.logoWidth = LogoWidthMin
       \/ /\ activeDragId = "text"
          /\ sessionBase.textWidth + SessionDX > TextWidthMax
          /\ data.textWidth = TextWidthMax

\* ---------------------------------------------------------------- C3
\* C3: after any sequence of events the text scale is within [0.5, 3.0].
C3_TextScaleInBounds == data.textScale \in TextScaleMin..TextScaleMax

\* A scale session on the text whose move event asked for a scale below 0.5.
C3_Witness ==
    /\ ScaleSession
    /\ LastEvent = "move"
    /\ sessionBase.textScale + ScaleDelta(pointer, sessionOrigin, scale) < TextScaleMin
    /\ data.textScale = TextScaleMin

\* ---------------------------------------------------------------- C4
\* C4: only one session is active at a time: a mouse-down that arrives while
\* the controller is Dragging is ignored, so the session's layer, action,
\* reference point and baselines are unchanged by it.
C4_DownWhileDraggingIgnored ==
    [][ (Dragging /\ events' = Append(events, "down")) => UNCHANGED ctrl ]_vars

\* ---------------------------------------------------------------- C5
\* C5: a mouseup during Dragging returns the controller to Idle, and while the
\* controller is Idle a mousemove changes no layer geometry and starts no
\* session.
C5_UpEndsSession ==
    [][ /\ (events' = Append(events, "up") => activeDragId' = NULL)
        /\ ((Idle /\ events' = Append(events, "move")) => (data' = data /\ activeDragId' = NULL))
      ]_vars

\* A session was started and ended by a mouseup, and a mousemove elsewhere
\* followed.
C5_Witness ==
    /\ events = <<"down", "up", "move">>
    /\ Idle
    /\ pointer # sessionOrigin

\* ---------------------------------------------------------------- C6
\* C6: a session is never left open across an interrupted gesture: whenever
\* no button is held the controller is Idle.
C6_NoSessionWithoutButton == (~buttonHeld) => Idle

\* ---------------------------------------------------------------- C7
\* C7: the document's mousemove and mouseup listeners are registered exactly
\* while a session is Dragging: none in Idle, exactly one of each while
\* Dragging (the handlers of the current render), none after the unmount.
C7_ListenersMatchSession ==
    /\ Idle => (moveListeners = <<>> /\ upListeners = <<>>)
    /\ Dragging => (moveListeners = <<Current>> /\ upListeners = <<Current>>)
    /\ (~mounted) => (moveListeners = <<>> /\ upListeners = <<>>)

\* A session in which two move events were handled: the listeners were
\* re-registered twice.
C7_Witness ==
    /\ Dragging
    /\ sessionMoves = 2
    /\ Len(moveListeners) = 1
    /\ Len(upListeners) = 1

\* ---------------------------------------------------------------- C8
\* C8: Move is incremental with the reference point re-based on every move
\* event: as long as no clamp was hit in the session, the dragged layer's
\* position is its position at the mouse-down plus the percentage conversion
\* of (last pointer position - session origin), each displacement counted
\* once; with events (0,0) -> (10,0) -> (10,10) at display scale 1 on the 400
\* px wide canvas, x has grown by exactly 2.5 points.
MoveIsTotalDisplacement(id) ==
    /\ PositionOf(data, id).x = PositionOf(sessionBase, id).x + SessionDX
    /\ PositionOf(data, id).y = PositionOf(sessionBase, id).y + SessionDY
    /\ dragStart = pointer
    /\ ( /\ scale = 1
         /\ sessionMoves = 2
         /\ sessionOrigin = [x |-> 0, y |-> 0]
         /\ pointer = [x |-> 10, y |-> 10] )
       => PositionOf(data, id).x = PositionOf(sessionBase, id).x + 250

C8_MoveIsIncremental ==
    (MoveSession /\ ~clampHit) => MoveIsTotalDisplacement(activeDragId)

\* The same statement for the text layer alone.
C8_TextMoveIsIncremental ==
    (MoveSession /\ activeDragId = "text" /\ ~clampHit) => MoveIsTotalDisplacement("text")

\* The spec's example: a Move session on the text, (0,0) -> (10,0) -> (10,10).
C8_TextExample ==
    /\ MoveSession
    /\ activeDragId = "text"
    /\ scale = 1
    /\ events = <<"down", "move", "move">>
    /\ sessionOrigin = [x |-> 0, y |-> 0]
    /\ pointer = [x |-> 10, y |-> 10]
    /\ data.textPosition = [x |-> 5250, y |-> 5200]

\* ---------------------------------------------------------------- C9
\* C9: ResizeWidth is baseline-relative: after every move event of a
\* ResizeWidth session the layer's width is the clamp of (its width at the
\* mouse-down + the percentage conversion of pointerX - originX), whatever
\* move events came before; from origin (0,0), a pointer at (20,0) on the
\* 400 px canvas at display scale 1 gives the baseline + 5 points.
C9_ResizeIsBaselineRelative ==
    (Dragging /\ dragAction = "resize" /\ sessionMoves >= 1) =>
        /\ WidthOf(data, activeDragId) =
             Clamp(WidthMin(activeDragId), WidthMax(activeDragId),
                   WidthOf(sessionBase, activeDragId) + SessionDX)
        /\ (scale = 1 /\ sessionOrigin = [x |-> 0, y |-> 0] /\ pointer = [x |-> 20, y |-> 0])
             => WidthOf(data, activeDragId) =
                  Clamp(WidthMin(activeDragId), WidthMax(activeDragId),
                        WidthOf(sessionBase, activeDragId) + Pct(5))

\* A ResizeWidth session on the text from (0,0) that reached (20,0) by way of
\* an intermediate move event: the width is the baseline + 5 points.
C9_Witness ==
    /\ Dragging
    /\ dragAction = "resize"
    /\ activeDragId = "text"
    /\ scale = 1
    /\ sessionMoves = 2
    /\ sessionOrigin = [x |-> 0, y |-> 0]
    /\ pointer = [x |-> 20, y |-> 0]
    /\ data.textWidth = sessionBase.textWidth + Pct(5)

\* --------------------------------------------------------------- C10
\* C10: ScaleUniform on the text sets scale = clamp(scale at the mouse-down +
\* 0.005 * (pixelDeltaX + pixelDeltaY), 0.5, 3.0), the pixel deltas being the
\* displacement from the session origin divided by the display scale, and
\* leaves the text position and width as they were; from the initial text
\* (position (50,50), width 80, scale 1.0) a displacement of (100,100) at
\* display scale 1 gives scale 2.0.
C10_TextScaleFormula ==
    (ScaleSession /\ sessionMoves >= 1) =>
        /\ data.textScale =
             Clamp(TextScaleMin, TextScaleMax,
                   sessionBase.textScale
                     + (((pointer.x - sessionOrigin.x) + (pointer.y - sessionOrigin.y)) * 5)
                         \div scale)
        /\ data.textPosition = sessionBase.textPosition
        /\ data.textWidth = sessionBase.textWidth
        /\ ( /\ scale = 1
             /\ sessionBase = InitialData
             /\ pointer.x - sessionOrigin.x = 100
             /\ pointer.y - sessionOrigin.y = 100 )
           => data.textScale = 2000

\* The end-to-end scenario: the initial text, a ScaleUniform session displaced
\* by (100,100) at display scale 1.
C10_Witness ==
    /\ ScaleSession
    /\ LastEvent = "move"
    /\ scale = 1
    /\ sessionBase = InitialData
    /\ sessionOrigin = [x |-> 0, y |-> 0]
    /\ pointer = [x |-> 100, y |-> 100]
    /\ data.textScale = 2000
    /\ data.textPosition = [x |-> Pct(50), y |-> Pct(50)]
    /\ data.textWidth = Pct(80)

\* --------------------------------------------------------------- C11
\* C11: on the logo and the photo a ScaleUniform session is a ResizeWidth
\* session: with either handle the mouse-down captures the layer's current
\* width as the baseline and every move event gives width = clamp(baseline +
\* percentage X delta) within the layer's bounds; the Y displacement has no
\* effect, and the text scale, every position and the other widths stay as
\* they were at the mouse-down.
C11_ScaleIsResizeOnLogoPhoto ==
    \A id \in {"logo", "photo"} :
        (Dragging /\ activeDragId = id /\ dragAction \in {"resize", "scale"}) =>
            /\ initialWidth = WidthOf(sessionBase, id)
            /\ dragStart = sessionOrigin
            /\ WidthOf(data, id) =
                 IF sessionMoves >= 1
                 THEN Clamp(WidthMin(id), WidthMax(id),
                            WidthOf(sessionBase, id)
                              + ((pointer.x - sessionOrigin.x) * Pct(100)) \div (scale * baseWidth))
                 ELSE WidthOf(sessionBase, id)
            /\ data.textScale = sessionBase.textScale
            /\ \A other \in LayerIds :
                 /\ PositionOf(data, other) = PositionOf(sessionBase, other)
                 /\ other # id => WidthOf(data, other) = WidthOf(sessionBase, other)

\* A ScaleUniform session on the photo whose pointer moved on both axes: the
\* width followed the X displacement only.
C11_Witness ==
    /\ Dragging
    /\ activeDragId = "photo"
    /\ dragAction = "scale"
    /\ sessionMoves >= 1
    /\ pointer.y # sessionOrigin.y
    /\ pointer.x # sessionOrigin.x
    /\ data.photoWidth # sessionBase.photoWidth
    /\ data.photoWidth = sessionBase.photoWidth + SessionDX

\* --------------------------------------------------------------- C12
\* C12: a move event of a Move session sets the active layer's position to
\* clamp(current position + percentage delta, 0, 100) on each axis, for each
\* of the three layers and every current position in [0,100], a coordinate
\* of exactly 0 included: a zero-delta move event leaves a coordinate that is
\* 0 at 0.
C12_MoveAddsDeltaToCurrent ==
    [][ \A id \in LayerIds :
          (MoveSession /\ activeDragId = id /\ events' = Append(events, "move")) =>
              LET dx == DeltaXPercent(pointer', dragStart, scale)
                  dy == DeltaYPercent(pointer', dragStart, scale)
                  cur == PositionOf(data, id)
              IN  /\ PositionOf(data', id) =
                       [ x |-> Clamp(PosMin, PosMax, cur.x + dx),
                         y |-> Clamp(PosMin, PosMax, cur.y + dy) ]
                  /\ (dx = 0 /\ cur.x = 0) => PositionOf(data', id).x = 0
                  /\ (dy = 0 /\ cur.y = 0) => PositionOf(data', id).y = 0
      ]_vars

\* --------------------------------------------------------------- C13
\* C13: the mouse-down that opens a session captures the pointer position as
\* the session's origin and, as baseline, the current value of the field the
\* session's move events write: the layer's width for every (layer, action)
\* pair that writes a width, the text scale for ScaleUniform on the text. A
\* baseline left by an earlier session, on this or another layer, is not
\* used: throughout the session the baseline is the value at its mouse-down.
C13_BaselineCapturedAtDown ==
    /\ LastEvent = "down" =>
         /\ Dragging
         /\ dragStart = pointer
         /\ sessionOrigin = pointer
         /\ WidthSession => initialWidth = WidthOf(data, activeDragId)
         /\ ScaleSession => initialScale = data.textScale
    /\ WidthSession => initialWidth = WidthOf(sessionBase, activeDragId)
    /\ ScaleSession => initialScale = sessionBase.textScale

\* A width session on the logo changed the logo's width, then a mouse-down on
\* the text's resize handle opened a session whose baseline is the text's
\* width, not the logo's.
C13_Witness ==
    /\ events = <<"down", "move", "down">>
    /\ data.logoWidth # InitialData.logoWidth
    /\ activeDragId = "text"
    /\ dragAction = "resize"
    /\ initialWidth = data.textWidth
    /\ initialWidth # data.logoWidth

\* --------------------------------------------------------------- C14
\* C14: every screen displacement is divided by the display scale before it
\* is used: for every action, a gesture of screen displacement s*d at display
\* scale s gives the same geometry as a gesture of displacement d at display
\* scale 1, the X displacement being normalised by the canvas pixel width
\* and the Y displacement by the canvas pixel height.
CanvasEvent(e, start, sc) ==
    [ x |-> start.x + (e.x - start.x) \div sc,
      y |-> start.y + (e.y - start.y) \div sc ]

C14_DisplayScaleNormalises ==
    Dragging =>
        /\ \A e \in Points :
             /\ MovePatch(Current, e, scale)
                  = MovePatch(Current, CanvasEvent(e, dragStart, scale), 1)
             /\ DeltaXPercent(e, dragStart, scale) * scale * 400 = (e.x - dragStart.x) * 10000
             /\ DeltaYPercent(e, dragStart, scale) * scale * 500 = (e.y - dragStart.y) * 10000
        /\ (LastEvent = "move" /\ sessionMoves = 1) =>
             data = updateData(sessionBase,
                               MovePatch(Closure(activeDragId, dragAction, sessionOrigin,
                                                 initialScale, initialWidth, sessionBase),
                                         CanvasEvent(pointer, sessionOrigin, scale), 1))

\* At display scale 2 a ResizeWidth session on the text displaced by 20
\* screen pixels: the width grew by 2.5 points, as for 10 canvas pixels.
C14_Witness ==
    /\ scale = 2
    /\ Dragging
    /\ activeDragId = "text"
    /\ dragAction = "resize"
    /\ LastEvent = "move"
    /\ sessionMoves = 1
    /\ pointer.x - sessionOrigin.x = 20
    /\ data.textWidth = sessionBase.textWidth + 250

\* --------------------------------------------------------------- C15
\* C15: the highlight set of "For God so loved the world" contains "god",
\* contains none of the stop or short words "for", "so" and "the", and has
\* at most 3 members.
C15_ExampleHighlights ==
    (content.mode = "VERSE" /\ content.verseText = ForGodSoLoved) =>
        /\ "god" \in view.highlightedKeywords
        /\ view.highlightedKeywords \cap { "for", "so", "the" } = {}
        /\ Cardinality(view.highlightedKeywords) <= 3

\* --------------------------------------------------------------- C16
\* C16: for every verse text the highlight set has at most 3 members, each
\* the lower-cased form of a token of length >= 3 whose score (20 if it is a
\* thematic keyword, plus its length if it is not a stop word, plus 5 if the
\* token begins with an upper-case letter) is positive; the set is exactly
\* the first 3 distinct words of the tokens ordered by descending score,
\* ties in the order of the text; no word outside the set scores strictly
\* higher than a word inside it.
StatedScore(w) ==
    (IF Str(toLowerCase(w)) \in christianKeywords THEN 20 ELSE 0)
    + (IF Str(toLowerCase(w)) \in commonStopWords THEN 0 ELSE Len(w))
    + (IF w # <<>> /\ IsUpperCaseLetter(w[1]) THEN 5 ELSE 0)

C16_TopThreeByScore ==
    content.mode = "VERSE" =>
        LET toks == words(content.verseText)
            H == view.highlightedKeywords
            Scored == { i \in 1..Len(toks) : Len(toks[i]) >= 3 /\ StatedScore(toks[i]) > 0 }
            word(i) == Str(toLowerCase(toks[i]))
            Before(j, i) ==
                \/ StatedScore(toks[j]) > StatedScore(toks[i])
                \/ (StatedScore(toks[j]) = StatedScore(toks[i]) /\ j < i)
            Ahead(i) == { word(j) : j \in { k \in Scored : Before(k, i) } } \ { word(i) }
            Best(w) == CHOOSE i \in Scored :
                          /\ word(i) = w
                          /\ \A j \in Scored : word(j) = w => StatedScore(toks[j]) <= StatedScore(toks[i])
        IN  /\ Cardinality(H) <= 3
            /\ \A w \in H : \E i \in Scored : word(i) = w
            /\ \A i \in Scored :
                 word(i) \in H <=> \E j \in Scored : word(j) = word(i) /\ Cardinality(Ahead(j)) < 3
            /\ \A i, j \in Scored :
                 (word(i) \in H /\ word(j) \notin H)
                   => StatedScore(toks[Best(word(j))]) <= StatedScore(toks[Best(word(i))])

\* "The LORD is my shepherd; I shall not want." with " for" typed behind it:
\* four tokens score, "The" and "shall" tie for the third place and the
\* earlier one takes it; the typed stop word scores nothing.
C16_Witness ==
    /\ content.mode = "VERSE"
    /\ typed = 2
    /\ content.verseText = TheLordIsMyShepherd \o PieceSpace \o PieceFor
    /\ view.highlightedKeywords = { "lord", "shepherd", "the" }

\* --------------------------------------------------------------- C17
\* C17: at render a part of the re-split verse text is highlighted exactly
\* when its cleaned form (lower-cased, everything but letters and digits
\* removed) is longer than 2 and a member of the highlight set; separator
\* parts and parts of fewer than 3 characters are never highlighted; the
\* parts, concatenated in order, are the verse text verbatim.
CleanedForm(part) ==
    LET kept == { i \in 1..Len(part) :
                    \/ IsLowerCaseLetter(part[i])
                    \/ IsUpperCaseLetter(part[i])
                    \/ part[i] \in DigitChars }
    IN  [ n \in 1..Cardinality(kept) |->
            LowerChar(part[CHOOSE i \in kept : Cardinality({ k \in kept : k < i }) = n - 1]) ]

C17_RenderHighlightsBySet ==
    (content.mode = "VERSE" /\ content.verseText # <<>>) =>
        /\ Join([ i \in 1..Len(view.verse) |-> view.verse[i].part ]) = content.verseText
        /\ \A i \in 1..Len(view.verse) :
             LET part == view.verse[i].part IN
             /\ view.verse[i].isHighlight <=>
                  ( /\ Len(CleanedForm(part)) > 2
                    /\ Str(CleanedForm(part)) \in view.highlightedKeywords )
             /\ (\A k \in 1..Len(part) : IsSeparator(part[k])) => ~view.verse[i].isHighlight
             /\ Len(part) < 3 => ~view.verse[i].isHighlight

\* "(God) is love..." 1 John 4:8 in quotes: "love" and "John" are
\* highlighted, the runs of punctuation are parts of their own and are not.
C17_Witness ==
    /\ content.mode = "VERSE"
    /\ typed = 1
    /\ content.verseText = GodIsLoveQuoted \o PieceStop
    /\ \E i \in 1..Len(view.verse) :
         view.verse[i].part = << "l", "o", "v", "e" >> /\ view.verse[i].isHighlight
    /\ \E i \in 1..Len(view.verse) :
         view.verse[i].part = << ".", ".", ".", "\"" >> /\ ~view.verse[i].isHighlight

\* --------------------------------------------------------------- C18
\* C18: when the text colour starts with "linear-gradient", the text style
\* of each of the 8 effects has a transparent fill (color and
\* WebkitTextFillColor) and carries the gradient as a background image
\* clipped to the text, and the accent style uses #ffffff; for any other text
\* colour both styles use the text colour itself and no background image is
\* set.
C18_GradientFillsThroughBackground ==
    LET gradient == /\ Len(content.textColor) >= 15
                    /\ Str(SubSeq(content.textColor, 1, 15)) = "linear-gradient"
        text   == view.textStyle
        accent == view.accentStyle
    IN  /\ content.textEffect \in TextEffects
        /\ gradient =>
             /\ text.color = "transparent"
             /\ text.WebkitTextFillColor = "transparent"
             /\ text.backgroundImage = Str(content.textColor)
             /\ text.backgroundClip = "text"
             /\ text.WebkitBackgroundClip = "text"
             /\ accent.color = "#ffffff"
        /\ ~gradient =>
             /\ text.color = Str(content.textColor)
             /\ accent.color = Str(content.textColor)
             /\ "backgroundImage" \notin DOMAIN text
             /\ "WebkitTextFillColor" \notin DOMAIN text
        /\ "backgroundImage" \notin DOMAIN accent

\* The Fire gradient was chosen, then the glitch effect.
C18_Witness ==
    /\ Str(content.textColor) = "linear-gradient(to right, #f83600 0%, #f9d423 100%)"
    /\ content.textEffect = "glitch"
    /\ view.textStyle.color = "transparent"
    /\ view.accentStyle.color = "#ffffff"

\* --------------------------------------------------------------- C19
\* C19: with the outline effect the text stroke is white exactly when the
\* base colour is #000000 and black for every other base colour, and the text
\* shadow is 'none'.
C19_OutlineContrasts ==
    content.textEffect = "outline" =>
        /\ view.textStyle.textShadow = "none"
        /\ Str(content.textColor) = "#000000" => view.textStyle.WebkitTextStroke = "1px #ffffff"
        /\ Str(content.textColor) # "#000000" => view.textStyle.WebkitTextStroke = "1px #000000"

\* The outline effect on the black preset.
C19_Witness ==
    /\ content.textEffect = "outline"
    /\ Str(content.textColor) = "#000000"
    /\ view.textStyle.WebkitTextStroke = "1px #ffffff"

\* --------------------------------------------------------------- C20
\* C20: translateText(text, "English") and translateReference(reference,
\* "English") return their input unchanged at once, without creating a
\* provider client and without issuing a request, for every input and also
\* when no API key is configured.
C20_EnglishIsIdentity ==
    \A i \in 1..Len(calls) :
        calls[i].lang = "English" =>
            /\ calls[i].status = "returned"
            /\ calls[i].result = calls[i].text
            /\ calls[i].clients = 0
            /\ calls[i].requests = 0

\* translateReference(" John 3:16 ", "English") was called without an API key
\* and gave the reference back, untrimmed.
C20_Witness ==
    \E i \in 1..Len(calls) :
        /\ calls[i].fn = "translateReference"
        /\ calls[i].lang = "English"
        /\ ~calls[i].hasKey
        /\ calls[i].text = TextJohn
        /\ calls[i].result = TextJohn

\* ------------------------------------------------------------------ C21
\* C21: translateText and translateReference never throw or reject, and on
\* every provider failure (no API key, a rejected request, a response without
\* text or with an empty text) the call resolves to the string it was given.
ProviderFailed(call) ==
    \/ ~call.hasKey
    \/ call.response.kind \in {"rejected", "undefined"}
    \/ call.response.kind = "text" /\ call.response.text = <<>>

C21_FailureResolvesToInput ==
    \A i \in 1..Len(calls) :
        calls[i].fn \in {"translateText", "translateReference"} =>
            /\ calls[i].status \in {"pending", "returned"}
            /\ (calls[i].status = "returned" /\ ProviderFailed(calls[i])) =>
                   calls[i].result = calls[i].text

\* The provider answered a request for Hindi with an empty text, and the call
\* returned the text it was given.
C21_Witness ==
    \E i \in 1..Len(calls) :
        /\ calls[i].lang = "Hindi" /\ calls[i].hasKey /\ calls[i].requests = 1
        /\ calls[i].status = "returned"
        /\ calls[i].response = [kind |-> "text", text |-> <<>>]
        /\ calls[i].text = TextGrace
        /\ calls[i].result = TextGrace

\* ------------------------------------------------------- the verse lookup

MaxFetches == 1

\* String.prototype.toUpperCase
toUpperCase(s) == [i \in 1..Len(s) |-> UpperChar(s[i])]

VersionWeb == << "w", "e", "b" >>
VersionKjv == << "k", "j", "v" >>
VersionWebUpper == << "W", "E", "B" >>
BibleVersions == { VersionWeb, VersionKjv, VersionWebUpper }

ReferenceJohn == << "J", "o", "h", "n", " ", "3", ":", "1", "6" >>
ReferenceTypo == << "J", "h", "n", " ", "3" >>
LookupReferences == { ReferenceJohn, ReferenceTypo }

\* What one request to bible-api.com can come to: a body with reference and
\* text, a status that is not ok, a rejected fetch, a body that is not JSON, a
\* body without text.
LookupText == << " ", "G", "o", "d", " ", "i", "s", " ", "l", "o", "v", "e", ".", "\n" >>
LookupOutcomes ==
    { [ kind |-> "ok", reference |-> ReferenceJohn, text |-> LookupText ],
      [ kind |-> "not-ok", reference |-> <<>>, text |-> <<>> ],
      [ kind |-> "rejected", reference |-> <<>>, text |-> <<>> ],
      [ kind |-> "bad-json", reference |-> <<>>, text |-> <<>> ],
      [ kind |-> "no-text", reference |-> ReferenceJohn, text |-> <<>> ] }

\* tryFetch(v) once its request has come to the outcome: <<>> is null, <<r>> is
\* the VerseResult r.  Every failure is caught inside tryFetch and gives null.
tryFetch(reference, v, outcome) ==
    IF outcome.kind = "ok"
    THEN << [ reference      |-> outcome.reference,
              text           |-> trim(outcome.text),
              translation_id |-> toUpperCase(v) ] >>
    ELSE <<>>

\* The fallback if it did not exclude a request for 'web'.
FallsBackAlways(result, version) == result = <<>>

\* if (!result && version !== 'web')
FallsBack(result, version) == result = <<>> /\ version # VersionWeb

\* fetchVerse(reference, version) up to the await of its first attempt.
fetchVerse(reference, version) ==
    [ reference |-> reference, version |-> version, status |-> "pending",
      attempts |-> << version >>, outcomes |-> <<>>, result |-> <<>> ]

\* fetchVerse from the await of an attempt on: after the first attempt it
\* falls back to 'web' or returns, after the second it returns.
fetchVerseResumes(f, outcome) ==
    LET result == tryFetch(f.reference, f.attempts[Len(f.attempts)], outcome)
        seen   == [f EXCEPT !.outcomes = Append(f.outcomes, outcome.kind)]
    IN  IF Len(f.attempts) = 1 /\ FallsBack(result, f.version)
        THEN [seen EXCEPT !.attempts = Append(f.attempts, VersionWeb)]
        ELSE [seen EXCEPT !.status = "returned", !.result = result]

\* A caller awaits fetchVerse(reference, version).
CallFetchVerse(reference, version) ==
    /\ Len(fetches) < MaxFetches
    /\ fetches' = Append(fetches, fetchVerse(reference, version))
    /\ UNCHANGED <<canvas, edit, calls, tasks, ui>>

\* The request of the attempt that call i awaits comes to an outcome.
AttemptSettles(i, outcome) ==
    /\ fetches[i].status = "pending"
    /\ fetches' = [fetches EXCEPT ![i] = fetchVerseResumes(fetches[i], outcome)]
    /\ UNCHANGED <<canvas, edit, calls, tasks, ui>>

FetchNext ==
    \/ \E reference \in LookupReferences, version \in BibleVersions :
         CallFetchVerse(reference, version)
    \/ \E i \in 1..Len(fetches), outcome \in LookupOutcomes : AttemptSettles(i, outcome)

FetchSpec == Init /\ [][FetchNext]_vars

\* ------------------------------------------------------------------ C23
\* C23: fetchVerse never throws; it tries the requested version first and,
\* only if that attempt failed and the requested version is not 'web', tries
\* 'web' once; it returns null only when every attempt failed, and a result
\* carries as translation_id the (upper-cased) version of the attempt that
\* succeeded.
C23_FallbackOnceToWeb ==
    \A i \in 1..Len(fetches) :
        LET f == fetches[i]
            n == Len(f.attempts)
            failed(k) == k <= Len(f.outcomes) /\ f.outcomes[k] # "ok"
        IN  /\ f.status \in {"pending", "returned"}
            /\ n \in {1, 2}
            /\ f.attempts[1] = f.version
            /\ n = 2 => f.attempts[2] = VersionWeb /\ f.version # VersionWeb /\ failed(1)
            /\ f.status = "returned" =>
                 /\ Len(f.outcomes) = n
                 /\ f.result = <<>> =>
                      /\ \A k \in 1..n : failed(k)
                      /\ f.version # VersionWeb => n = 2
                 /\ f.result # <<>> =>
                      /\ f.outcomes[n] = "ok"
                      /\ f.result[1].translation_id = toUpperCase(f.attempts[n])

\* A lookup of the KJV failed, the fallback to 'web' succeeded, and the result
\* names WEB.
C23_Witness ==
    \E i \in 1..Len(fetches) :
        /\ fetches[i].version = VersionKjv
        /\ fetches[i].status = "returned"
        /\ fetches[i].attempts = << VersionKjv, VersionWeb >>
        /\ fetches[i].outcomes = << "not-ok", "ok" >>
        /\ Str(fetches[i].result[1].translation_id) = "WEB"

\* ------------------------------------------- typing with transliteration

MaxInputs == 1

\* A value of the response's JSON that is a string or undefined.
Undefined == [ type |-> "undefined", chars |-> <<>> ]
StringValue(chars) == [ type |-> "string", chars |-> chars ]

\* String(v) as string concatenation applies it.
StringOf(v) == IF v.type = "undefined" THEN << "u", "n", "d", "e", "f", "i", "n", "e", "d" >> ELSE v.chars

\* What the request to the input tools can come to.  A body is the array
\* [status, list]: list is <<>> when json[1] is missing and << entries >>
\* otherwise; an entry is [word, suggestions], with suggestions <<>> when
\* json[1][0][1] is missing and << the array of suggestions >> otherwise.
Body(status, list) == [ kind |-> "json", status |-> status, list |-> list ]
Entry(suggestions) == [ suggestions |-> suggestions ]

WordGrace == << "g", "r", "a", "c", "e" >>
ScriptGrace == << "G", "R", "E", "S" >>

InputToolsResponses ==
    { [ kind |-> "rejected", status |-> "", list |-> <<>> ],
      [ kind |-> "bad-json", status |-> "", list |-> <<>> ],
      Body("FAILED_TO_PARSE_REQUEST_BODY", <<>>),
      Body("SUCCESS", <<>>),
      Body("SUCCESS", << <<>> >>),
      Body("SUCCESS", << << Entry(<<>>) >> >>),
      Body("SUCCESS", << << Entry(<< <<>> >>) >> >>),
      Body("SUCCESS", << << Entry(<< << <<>> >> >>) >> >>),
      Body("SUCCESS", << << Entry(<< << WordGrace >> >>) >> >>),
      Body("SUCCESS", << << Entry(<< << ScriptGrace >> >>) >> >>) }

\* handleTransliterate before its request: does it return the word at once
\* (no input-method code for the language, or an empty word).
ReturnsWordAtOnce(hasCode, word) == ~hasCode \/ word = <<>>

\* handleTransliterate from the await of its request on: the first suggestion
\* when json[0] === 'SUCCESS' && json[1] && json[1][0] && json[1][0][1] (an
\* array is truthy also when it is empty), else the word.
handleTransliterate(word, json) ==
    IF /\ json.kind = "json"
       /\ json.status = "SUCCESS"
       /\ json.list # <<>>
       /\ json.list[1] # <<>>
       /\ json.list[1][1].suggestions # <<>>
    THEN LET suggestions == json.list[1][1].suggestions[1]
         IN  IF suggestions = <<>> THEN Undefined ELSE StringValue(suggestions[1])
    ELSE StringValue(word)

\* textBeforeDelimiter.match(/([^\s]+)$/): the run of non-space characters at
\* the end of the text, <<>> when there is no match.
LastWord(text) ==
    LET spaces == { i \in 1..Len(text) : IsSpace(text[i]) }
        from   == IF spaces = {} THEN 1
                  ELSE 1 + CHOOSE i \in spaces : \A j \in spaces : j <= i
    IN  SubSeq(text, from, Len(text))

\* /^[a-zA-Z0-9]+$/.test(word)
IsLatinWord(word) ==
    /\ word # <<>>
    /\ \A i \in 1..Len(word) :
         IsUpperCaseLetter(word[i]) \/ IsLowerCaseLetter(word[i]) \/ word[i] \in DigitChars

\* handleSmartInput up to the call of handleTransliterate: the word it hands
\* over, <<>> when it hands over none.
WordToTransliterate(newVal, enabled, language) ==
    IF /\ enabled
       /\ language # "English"
       /\ newVal # <<>>
       /\ newVal[Len(newVal)] \in {" ", "\n"}
       /\ IsLatinWord(LastWord(SubSeq(newVal, 1, Len(newVal) - 1)))
    THEN LastWord(SubSeq(newVal, 1, Len(newVal) - 1))
    ELSE <<>>

\* The value handleSmartInput hands to updateState once handleTransliterate
\* has returned translated for lastWord.
SmartInputValue(newVal, lastWord, translated) ==
    IF translated # StringValue(lastWord)
    THEN SubSeq(newVal, 1, Len(newVal) - 1 - Len(lastWord))
            \o StringOf(translated) \o << newVal[Len(newVal)] >>
    ELSE newVal

\* An invocation of handleSmartInput for the query field.
SmartInputTask(newVal, lastWord, stage, json, translated, written) ==
    [ handler |-> "handleSmartInput", newVal |-> newVal, lastWord |-> lastWord,
      stage |-> stage, json |-> json, translated |-> translated, written |-> written ]

TypedQueries ==
    { <<>>, << "g", "r", "a", "c", "e" >>, << "g", "r", "a", "c", "e", " " >>, << "i", "n", " ", "g", "r", "a", "c", "e", "\n" >>,
      << "g", "r", "a", "c", "e", " ", " " >>, << "J", "o", "h", "n", " ", "3", ":", "1", "6", " " >>, << "i", "n", " ", "3", " " >>,
      << "a", "m", "e", "n", "\n" >> }

\* handleQueryChange: the user types into the query field.  An input that
\* needs no request is written at once; else the handler awaits the request.
handleQueryChange(newVal, hasCode) ==
    LET lastWord == WordToTransliterate(newVal, ui.isTransliterationEnabled, content.language)
    IN  /\ Len(tasks) < MaxInputs
        /\ IF lastWord = <<>> \/ ReturnsWordAtOnce(hasCode, lastWord)
           THEN /\ ui' = [ui EXCEPT !.verseQuery = newVal]
                /\ tasks' = Append(tasks, SmartInputTask(newVal, lastWord, "done",
                                     [kind |-> "none", status |-> "", list |-> <<>>],
                                     StringValue(lastWord), newVal))
           ELSE /\ ui' = ui
                /\ tasks' = Append(tasks, SmartInputTask(newVal, lastWord, "awaiting",
                                     [kind |-> "none", status |-> "", list |-> <<>>],
                                     Undefined, <<>>))
        /\ UNCHANGED <<canvas, edit, calls, fetches>>

\* The request of invocation k settles and the handler runs to its end.
TransliterationSettles(k, json) ==
    /\ tasks[k].handler = "handleSmartInput"
    /\ tasks[k].stage = "awaiting"
    /\ LET translated == handleTransliterate(tasks[k].lastWord, json)
           value == SmartInputValue(tasks[k].newVal, tasks[k].lastWord, translated)
       IN  /\ ui' = [ui EXCEPT !.verseQuery = value]
           /\ tasks' = [tasks EXCEPT ![k].stage = "done", ![k].json = json,
                                     ![k].translated = translated, ![k].written = value]
    /\ UNCHANGED <<canvas, edit, calls, fetches>>

\* The content language is English or, after a change of language, Hindi.
InputInit ==
    /\ CanvasInit
    /\ \E language \in {"English", "Hindi"} :
         content = [InitialContent EXCEPT !.language = language]
    /\ view = Render(content)
    /\ typed = 0
    /\ calls = <<>>
    /\ PanelInit

InputNext ==
    \/ \E newVal \in TypedQueries, hasCode \in BOOLEAN : handleQueryChange(newVal, hasCode)
    \/ \E k \in 1..Len(tasks), json \in InputToolsResponses : TransliterationSettles(k, json)

InputSpec == InputInit /\ [][InputNext]_vars

\* ------------------------------------------------------------------ C22
\* C22: handleTransliterate returns the word unchanged on every failure and on
\* every response without a suggestion, so handleSmartInput writes either the
\* typed text or the typed text with its last word replaced by a non-empty
\* suggestion.
FirstSuggestions(json) ==
    IF /\ json.kind = "json" /\ json.status = "SUCCESS"
       /\ json.list # <<>> /\ json.list[1] # <<>>
       /\ json.list[1][1].suggestions # <<>>
       /\ json.list[1][1].suggestions[1] # <<>>
       /\ json.list[1][1].suggestions[1][1] # <<>>
    THEN { json.list[1][1].suggestions[1][1] }
    ELSE {}

C22_WritesTextOrSuggestion ==
    \A k \in 1..Len(tasks) :
        (tasks[k].handler = "handleSmartInput" /\ tasks[k].stage = "done") =>
            LET t == tasks[k] IN
            /\ FirstSuggestions(t.json) = {} => t.translated = StringValue(t.lastWord)
            /\ \/ t.written = t.newVal
               \/ \E suggestion \in FirstSuggestions(t.json) :
                    t.written = SubSeq(t.newVal, 1, Len(t.newVal) - 1 - Len(t.lastWord))
                                   \o suggestion \o << t.newVal[Len(t.newVal)] >>

\* ------------------------------------------- generating a background

MaxGenerations == 2

\* What the image request can come to: a rejection, or a response whose
\* candidates are <<>> when the field is missing and << the array >> otherwise.
\* A candidate has a content or none, and its parts are <<>> when missing and
\* << the array >> otherwise; a part carries inlineData (<< it >>) or none.
TextPart == [ inlineData |-> <<>> ]
ImagePart(mimeType, imageData) ==
    [ inlineData |-> << [ mimeType |-> mimeType, data |-> imageData ] >> ]
Candidate(hasContent, imageParts) == [ hasContent |-> hasContent, parts |-> imageParts ]
ImageResponse(list) == [ kind |-> "response", candidates |-> list ]

ImageResponses ==
    { [ kind |-> "rejected", candidates |-> <<>> ],
      ImageResponse(<<>>),
      ImageResponse(<< <<>> >>),
      ImageResponse(<< << Candidate(FALSE, <<>>) >> >>),
      ImageResponse(<< << Candidate(TRUE, <<>>) >> >>),
      ImageResponse(<< << Candidate(TRUE, << <<>> >>) >> >>),
      ImageResponse(<< << Candidate(TRUE, << << TextPart >> >>) >> >>),
      ImageResponse(<< << Candidate(TRUE, << << TextPart, ImagePart("image/jpeg", "QUJD") >> >>) >> >>),
      ImageResponse(<< << Candidate(TRUE, << << ImagePart("", "REVG"), ImagePart("image/jpeg", "QUJD") >> >>) >> >>) }

\* generateBackground from the await of its request on: <<>> is null, << url >>
\* the data URL of the first part with inlineData.  A rejected request, an
\* empty candidates array and a candidate without content all end in the catch.
generateBackground(response) ==
    IF response.kind = "rejected" \/ response.candidates = <<>> THEN <<>>
    ELSE IF response.candidates[1] = <<>> THEN <<>>
    ELSE LET chosen == response.candidates[1][1] IN
         IF ~chosen.hasContent \/ chosen.parts = <<>> THEN <<>>
         ELSE LET imageParts == chosen.parts[1]
                  images == { i \in 1..Len(imageParts) : imageParts[i].inlineData # <<>> }
              IN  IF images = {} THEN <<>>
                  ELSE LET first == imageParts[CHOOSE i \in images : \A j \in images : i <= j]
                           inlineData == first.inlineData[1]
                       IN  << "data:"
                              \o (IF inlineData.mimeType = "" THEN "image/png"
                                  ELSE inlineData.mimeType)
                              \o ";base64," \o inlineData.data >>

\* The update handleAiBackgroundGen makes whatever generateBackground returned.
BackgroundPatchUnguarded(imageUrl) ==
    [ backgroundImageUrl |-> IF imageUrl = <<>> THEN "null" ELSE imageUrl[1] ]

\* if (imageUrl) updateData({ backgroundImageUrl: imageUrl }): the update
\* handleAiBackgroundGen makes, none for null.
BackgroundPatch(imageUrl) ==
    IF imageUrl # <<>> THEN [ backgroundImageUrl |-> imageUrl[1] ] ELSE <<>>

\* An invocation of handleAiBackgroundGen.
GenerationTask(type, hasKey, stage, imageUrl) ==
    [ handler |-> "handleAiBackgroundGen", type |-> type, hasKey |-> hasKey,
      stage |-> stage, imageUrl |-> imageUrl ]

Generations == { k \in 1..Len(tasks) : tasks[k].handler = "handleAiBackgroundGen" }

\* A click on one of the two buttons, which are disabled while isGeneratingBg.
\* Without an API key getAiInstance throws inside generateBackground, which
\* returns null before any other event, and the handler runs to its end.
handleAiBackgroundGen(type, hasKey) ==
    /\ ~ui.isGeneratingBg
    /\ Cardinality(Generations) < MaxGenerations
    /\ IF getAiInstance(hasKey) = "throws"
       THEN /\ tasks' = Append(tasks, GenerationTask(type, hasKey, "done", <<>>))
            /\ content' = updateData(content, BackgroundPatch(<<>>))
            /\ ui' = [ui EXCEPT !.isGeneratingBg = FALSE]
       ELSE /\ tasks' = Append(tasks, GenerationTask(type, hasKey, "awaiting", <<>>))
            /\ content' = content
            /\ ui' = [ui EXCEPT !.isGeneratingBg = TRUE]
    /\ view' = Rerender(view, content, content')
    /\ UNCHANGED <<canvas, typed, calls, fetches>>

\* The image request of invocation k settles and the handler runs to its end.
GenerationSettles(k, response) ==
    /\ k \in Generations
    /\ tasks[k].stage = "awaiting"
    /\ LET imageUrl == generateBackground(response) IN
       /\ tasks' = [tasks EXCEPT ![k].stage = "done", ![k].imageUrl = imageUrl]
       /\ content' = updateData(content, BackgroundPatch(imageUrl))
    /\ view' = Rerender(view, content, content')
    /\ ui' = [ui EXCEPT !.isGeneratingBg = FALSE]
    /\ UNCHANGED <<canvas, typed, calls, fetches>>

BackgroundNext ==
    \/ \E type \in {"abstract", "realistic"}, hasKey \in BOOLEAN :
         handleAiBackgroundGen(type, hasKey)
    \/ \E k \in 1..Len(tasks), response \in ImageResponses : GenerationSettles(k, response)

BackgroundSpec == Init /\ [][BackgroundNext]_vars

\* ------------------------------------------------------------------ C27
\* C27: a generation that resolves to null leaves backgroundImageUrl as it
\* was; isGeneratingBg is false after every generation attempt, successful or
\* not; and while isGeneratingBg is true no generation is started.
C27_FailedGenerationKeepsBackground ==
    [][ /\ \A k \in 1..Len(tasks') :
             ( /\ tasks'[k].handler = "handleAiBackgroundGen"
               /\ tasks'[k].stage = "done"
               /\ (k > Len(tasks) \/ tasks[k].stage = "awaiting") ) =>
                  /\ ~ui'.isGeneratingBg
                  /\ tasks'[k].imageUrl = <<>> =>
                       content'.backgroundImageUrl = content.backgroundImageUrl
        /\ ui.isGeneratingBg => Len(tasks') = Len(tasks)
        /\ ui'.isGeneratingBg <=> \E k \in 1..Len(tasks') : tasks'[k].stage = "awaiting"
      ]_vars

\* After a generated image was set, a second generation was answered without
\* an image part: the first image is still the background and the flag is off.
C27_Witness ==
    /\ Len(tasks) = 2
    /\ tasks[1].stage = "done" /\ tasks[1].imageUrl = << "data:image/png;base64,REVG" >>
    /\ tasks[2].stage = "done" /\ tasks[2].hasKey /\ tasks[2].imageUrl = <<>>
    /\ content.backgroundImageUrl = "data:image/png;base64,REVG"
    /\ ~ui.isGeneratingBg

\* --------------------------------- the editor's asynchronous handlers

MaxHandlers == 2

\* A character outside ASCII is written as its code point.
NonAsciiChars == { "U+092E", "U+093E" }

\* /[^\x00-\x7F]/.test(text)
HasNonAscii(text) == \E i \in 1..Len(text) : text[i] \in NonAsciiChars

\* a || b on strings
OrElse(a, b) == IF a # <<>> THEN a ELSE b

\* Variant of interpretVerseReference: without its catch, the promise is
\* rejected when getAiInstance throws.
interpretVerseReferenceRejects(query, hasKey) ==
    IF getAiInstance(hasKey) = "throws"
    THEN CallRecord("interpretVerseReference", query, "", hasKey, "rejected", <<>>, 0, 0)
    ELSE CallRecord("interpretVerseReference", query, "", hasKey, "pending", <<>>, 1, 1)

\* interpretVerseReference(query) up to its return or its await.
interpretVerseReference(query, hasKey) ==
    IF getAiInstance(hasKey) = "throws"
    THEN CallRecord("interpretVerseReference", query, "", hasKey, "returned", query, 0, 0)
    ELSE CallRecord("interpretVerseReference", query, "", hasKey, "pending", <<>>, 1, 1)

\* Promise.resolve(value), kept with the calls a handler awaits.
Resolved(value) == CallRecord("Promise.resolve", value, "", FALSE, "returned", value, 0, 0)

\* What the handlers read and write.
EditorState == [ content |-> content, ui |-> ui, tasks |-> tasks, calls |-> calls,
                 fetches |-> fetches ]

\* onUpdate(patch): the App's updateData.
onUpdate(st, patch) == [st EXCEPT !.content = updateData(st.content, patch)]

\* An invocation of a handler: the values of its closure that it uses after
\* an await, the calls and the lookup it awaits, and where it stands.
EditorTask(handler, stage, lang, mode, hasKey, query, version, awaits, fetch, ref) ==
    [ handler |-> handler, stage |-> stage, lang |-> lang, mode |-> mode,
      hasKey |-> hasKey, query |-> query, version |-> version, awaits |-> awaits,
      fetch |-> fetch, ref |-> ref, searchQuery |-> <<>>, found |-> <<>> ]

\* Has everything the invocation k awaits settled.
Ready(st, k) ==
    /\ st.tasks[k].handler \in {"handleLanguageChange", "handleSearchVerse", "handleTranslate"}
    /\ st.tasks[k].stage # "done"
    /\ \A i \in 1..Len(st.tasks[k].awaits) :
         st.calls[st.tasks[k].awaits[i]].status = "returned"
    /\ st.tasks[k].fetch # 0 => st.fetches[st.tasks[k].fetch].status = "returned"

\* handleTranslate(text, langName, ref) up to its await.
handleTranslate(st, text, langName, ref, hasKey) ==
    LET n == Len(st.calls)
        second == IF langName # "English" THEN translateReference(ref, langName, hasKey)
                  ELSE Resolved(ref)
    IN  [st EXCEPT !.ui.isTranslating = TRUE,
                   !.calls = st.calls \o << translateText(text, langName, hasKey), second >>,
                   !.tasks = Append(st.tasks,
                        EditorTask("handleTranslate", "awaiting", langName, st.content.mode,
                                   hasKey, <<>>, <<>>, << n + 1, n + 2 >>, 0, ref))]

\* The reference handleLanguageChange would translate if it took the one shown.
ReferenceShown(posterData) == posterData.verseReference

\* data.verseReferenceEnglish || data.verseReference
ReferenceToTranslate(posterData) ==
    OrElse(posterData.verseReferenceEnglish, posterData.verseReference)

\* handleLanguageChange(newLang) up to its return or its await.  posterData is
\* the data of the render the handler belongs to.
handleLanguageChange(st, newLang, hasKey) ==
    LET posterData == st.content
        n == Len(st.calls)
        s1 == onUpdate(st, [language |-> newLang])
        task(stage, awaits) ==
            EditorTask("handleLanguageChange", stage, newLang, posterData.mode, hasKey,
                       <<>>, <<>>, awaits, 0, <<>>)
        translated(text) == IF trim(text) # <<>> THEN translateText(text, newLang, hasKey)
                            ELSE Resolved(text)
    IN  IF ~hasKey
        THEN [s1 EXCEPT !.tasks = Append(s1.tasks, task("done", <<>>))]
        ELSE IF posterData.mode = "EVENT"
        THEN [s1 EXCEPT !.ui.isTranslating = TRUE,
                        !.calls = s1.calls \o << translated(posterData.eventTitle),
                                                 translated(posterData.eventDetails) >>,
                        !.tasks = Append(s1.tasks, task("awaiting", << n + 1, n + 2 >>))]
        ELSE IF trim(posterData.verseText) # <<>>
        THEN [s1 EXCEPT !.ui.isTranslating = TRUE,
                        !.calls = s1.calls \o
                            << translateText(posterData.verseText, newLang, hasKey),
                               translateReference(ReferenceToTranslate(posterData),
                                                  newLang, hasKey) >>,
                        !.tasks = Append(s1.tasks, task("awaiting", << n + 1, n + 2 >>))]
        ELSE [s1 EXCEPT !.ui.isTranslating = FALSE,
                        !.tasks = Append(s1.tasks, task("done", <<>>))]

\* handleSearchVerse from the call of fetchVerse up to its await.
SearchFetches(st, k, searchQuery) ==
    [st EXCEPT !.fetches = Append(st.fetches, fetchVerse(searchQuery, st.tasks[k].version)),
               !.tasks[k].stage = "fetching",
               !.tasks[k].awaits = <<>>,
               !.tasks[k].fetch = Len(st.fetches) + 1,
               !.tasks[k].searchQuery = searchQuery]

\* handleSearchVerse up to its first await; version is what the interface
\* language's entry of SUPPORTED_LANGUAGES gives, or 'web'.
handleSearchVerse(st, version, hasKey) ==
    LET verseQuery == st.ui.verseQuery
        k == Len(st.tasks) + 1
        s1 == [st EXCEPT !.ui.isSearching = TRUE,
                         !.tasks = Append(st.tasks,
                              EditorTask("handleSearchVerse", "interpreting",
                                         st.content.language, st.content.mode, hasKey,
                                         verseQuery, version, <<>>, 0, <<>>))]
    IN  IF st.content.language # "English" /\ HasNonAscii(verseQuery)
        THEN [s1 EXCEPT !.calls = Append(st.calls, interpretVerseReference(verseQuery, hasKey)),
                        !.tasks[k].awaits = << Len(st.calls) + 1 >>]
        ELSE SearchFetches(s1, k, verseQuery)

\* The alert of handleSearchVerse if it did not name the query.
NotFoundUnnamed(searchQuery) == [ message |-> "Verse not found for", query |-> <<>> ]

\* The alert of handleSearchVerse.
NotFound(searchQuery) == [ message |-> "Verse not found for", query |-> searchQuery ]

\* The update of handleLanguageChange if an invocation dropped its result when
\* a later one exists.
LanguageChangeUpdatesIfLatest(st, k) ==
    IF \E j \in (k + 1)..Len(st.tasks) : st.tasks[j].handler = "handleLanguageChange"
    THEN st
    ELSE onUpdate(st, [ verseText |-> st.calls[st.tasks[k].awaits[1]].result,
                        verseReference |-> st.calls[st.tasks[k].awaits[2]].result ])

\* The update handleLanguageChange makes with what its two calls returned.
LanguageChangeUpdates(st, k) ==
    LET returned(i) == st.calls[st.tasks[k].awaits[i]].result IN
    onUpdate(st, IF st.tasks[k].mode = "EVENT"
                 THEN [ eventTitle |-> returned(1), eventDetails |-> returned(2) ]
                 ELSE [ verseText |-> returned(1), verseReference |-> returned(2) ])

\* The invocation k, everything it awaited settled, runs up to its next await
\* or to its end.
Resume(st, k) ==
    LET t == st.tasks[k]
        returned(i) == st.calls[t.awaits[i]].result
        finished == [st EXCEPT !.tasks[k].stage = "done"]
    IN  CASE t.handler = "handleLanguageChange" ->
             [ LanguageChangeUpdates(finished, k) EXCEPT !.ui.isTranslating = FALSE ]
          [] t.handler = "handleTranslate" ->
             [ onUpdate(finished, [ verseText |-> returned(1),
                                    verseReference |-> returned(2),
                                    verseReferenceEnglish |-> t.ref ])
               EXCEPT !.ui.isTranslating = FALSE ]
          [] t.handler = "handleSearchVerse" /\ t.stage = "interpreting" ->
             SearchFetches(st, k, returned(1))
          [] t.handler = "handleSearchVerse" /\ t.stage = "fetching" ->
             LET result == st.fetches[t.fetch].result
                 s1 == [st EXCEPT !.ui.isSearching = FALSE,
                                  !.tasks[k].fetch = 0,
                                  !.tasks[k].found = result]
             IN  IF result = <<>>
                 THEN [s1 EXCEPT !.ui.alerts = Append(st.ui.alerts, NotFound(t.searchQuery)),
                                 !.tasks[k].stage = "done"]
                 ELSE LET s2 == onUpdate(s1, [ verseText |-> result[1].text,
                                               verseReference |-> result[1].reference,
                                               verseReferenceEnglish |-> result[1].reference ])
                      IN  IF t.lang = "English"
                          THEN [s2 EXCEPT !.tasks[k].stage = "done"]
                          ELSE IF HasNonAscii(t.query)
                          THEN [ onUpdate(s2, [ verseReference |-> t.query ])
                                 EXCEPT !.calls = Append(st.calls,
                                            translateText(result[1].text, t.lang, t.hasKey)),
                                        !.tasks[k].stage = "translating",
                                        !.tasks[k].awaits = << Len(st.calls) + 1 >> ]
                          ELSE handleTranslate([s2 EXCEPT !.tasks[k].stage = "done"],
                                               result[1].text, t.lang, result[1].reference,
                                               t.hasKey)
          [] t.handler = "handleSearchVerse" /\ t.stage = "translating" ->
             onUpdate(finished, [ verseText |-> returned(1) ])

\* Every invocation whose awaited promises have all settled runs on, before
\* the next event is handled.
RECURSIVE RunReady(_)
RunReady(st) ==
    LET ready == { k \in 1..Len(st.tasks) : Ready(st, k) }
    IN  IF ready = {} THEN st
        ELSE RunReady(Resume(st, CHOOSE k \in ready : \A j \in ready : k <= j))

\* The handlers' state becomes reached, and PosterPreview is rendered anew.
Merges(reached) ==
    \E st \in { reached } :
    /\ content' = st.content
    /\ view' = Rerender(view, content, st.content)
    /\ ui' = st.ui
    /\ tasks' = st.tasks
    /\ calls' = st.calls
    /\ fetches' = st.fetches

\* The step of the editor that leaves the handlers' state as reached.
Becomes(reached) == Merges(reached) /\ UNCHANGED <<canvas, typed>>

\* The invocations the user started.
Invocations ==
    { k \in 1..Len(tasks) : tasks[k].handler \in {"handleLanguageChange", "handleSearchVerse"} }

\* A click on a language of the menu.
LanguageChange(newLang) ==
    /\ Cardinality(Invocations) < MaxHandlers
    /\ Becomes(RunReady(handleLanguageChange(EditorState, newLang, ui.apiKey)))

\* Can the user start a search this way: the search button is disabled while
\* isSearching, the Enter key in the query field is handled at any time.
SearchTriggers(trigger) == IF trigger = "button" THEN ~ui.isSearching ELSE TRUE

\* A click on the search button or Enter in the query field.
SearchVerse(version) ==
    /\ Cardinality(Invocations) < MaxHandlers
    /\ \E trigger \in { "button", "Enter" } : SearchTriggers(trigger)
    /\ ui.verseQuery # <<>>
    /\ Becomes(RunReady(handleSearchVerse(EditorState, version, ui.apiKey)))

\* The call once the provider has settled its request, if it had one pending.
Settled(call, response) ==
    IF call.status = "pending"
    THEN [call EXCEPT !.status = "returned",
                      !.result = ResultOf(call.text, response),
                      !.response = response]
    ELSE call

\* The calls once the requests that invocation k awaits have settled, the
\* i-th of them with responses[i].
CallsSettled(k, responses) ==
    [c \in 1..Len(calls) |->
        IF \E i \in 1..Len(tasks[k].awaits) : tasks[k].awaits[i] = c
        THEN Settled(calls[c],
                     responses[CHOOSE i \in 1..Len(tasks[k].awaits) : tasks[k].awaits[i] = c])
        ELSE calls[c]]

\* The provider settles the requests of the calls that invocation k awaits
\* (the order in which the two requests of one Promise.all settle is not
\* observable), the i-th of them with responses[i].
EditorCallsSettle(k, responses) ==
    /\ tasks[k].stage # "done"
    /\ \E i \in 1..Len(tasks[k].awaits) : calls[tasks[k].awaits[i]].status = "pending"
    /\ Becomes(RunReady([EditorState EXCEPT !.calls = CallsSettled(k, responses)]))

\* The request of the attempt that lookup j awaits comes to an outcome.
EditorAttemptSettles(j, outcome) ==
    /\ fetches[j].status = "pending"
    /\ Becomes(RunReady([EditorState EXCEPT
                            !.fetches[j] = fetchVerseResumes(fetches[j], outcome)]))

\* The languages of the menu that the model uses.
ContentLanguages == { "English", "Hindi", "Tamil" }

\* What the provider answers to a call: a text in the language asked for or,
\* to a request for a verse text or an interpretation, a rejection.
VerseInHindi == << "P", "a", "r", "a", "m", "e", "s", "h", "w", "a", "r", " ", "p", "r", "e", "m", " ", "h", "a", "i", "." >>
VerseInTamil == << "D", "e", "v", "a", "n", " ", "a", "n", "b", "u", "." >>
ReferenceInHindi == << "Y", "u", "h", "a", "n", "n", "a", " ", "3", ":", "1", "6" >>
ReferenceInTamil == << "Y", "o", "v", "a", "n", " ", "3", ":", "1", "6" >>

TranslationInto(fn, lang) ==
    CASE fn = "interpretVerseReference" -> ReferenceJohn
      [] fn = "translateReference" /\ lang = "Hindi" -> ReferenceInHindi
      [] fn = "translateReference" -> ReferenceInTamil
      [] lang = "Hindi" -> VerseInHindi
      [] OTHER -> VerseInTamil

AnswersTo(call) ==
    IF call.status = "pending" /\ call.fn = "translateReference"
    THEN { [ kind |-> "text", text |-> TranslationInto(call.fn, call.lang) ] }
    ELSE IF call.status = "pending"
    THEN { [ kind |-> "text", text |-> TranslationInto(call.fn, call.lang) ],
           [ kind |-> "rejected", text |-> <<>> ] }
    ELSE { NoResponse }

\* The answers to the calls that invocation k awaits, one for each call.
AnswersToCallsOf(k) ==
    LET awaited == tasks[k].awaits IN
    IF Len(awaited) = 0 THEN { <<>> }
    ELSE IF Len(awaited) = 1 THEN { << r >> : r \in AnswersTo(calls[awaited[1]]) }
    ELSE { << r[1], r[2] >> :
             r \in AnswersTo(calls[awaited[1]]) \X AnswersTo(calls[awaited[2]]) }

\* The user has typed a short verse into the verse text area, and the query
\* field holds a reference, typed in Latin or in Devanagari letters.
QueryLocal == << "U+092E", "U+093E", " ", "3", ":", "7" >>

EditorInit ==
    /\ CanvasInit
    /\ scale = 1
    /\ content = [InitialContent EXCEPT !.verseText = ForGodSoLoved]
    /\ view = Render(content)
    /\ typed = 0
    /\ calls = <<>>
    /\ fetches = <<>>
    /\ tasks = <<>>
    /\ \E verseQuery \in { ReferenceJohn, QueryLocal }, apiKey \in BOOLEAN :
         ui = [InitialUi EXCEPT !.verseQuery = verseQuery, !.apiKey = apiKey]

EditorNext ==
    \/ \E newLang \in ContentLanguages : LanguageChange(newLang)
    \/ \E version \in { VersionKjv } : SearchVerse(version)
    \/ \E k \in 1..Len(tasks) : \E responses \in AnswersToCallsOf(k) :
         EditorCallsSettle(k, responses)
    \/ \E j \in 1..Len(fetches), outcome \in LookupOutcomes :
         outcome.kind \in {"ok", "not-ok"} /\ EditorAttemptSettles(j, outcome)

EditorSpec == EditorInit /\ [][EditorNext]_vars

\* ------------------------------------------------------------------ C24
\* C24: translations of the same field are neither de-duplicated nor
\* cancelled.  Every language change that translates sends its own request for
\* the verse text, also while an earlier one is pending, and when an
\* invocation's requests have settled the verse text and the reference become
\* what that invocation's calls returned, whatever the language is by then: the
\* field holds the result of the invocation that resolves last.
LanguageChanges == { k \in 1..Len(tasks) : tasks[k].handler = "handleLanguageChange" }

C24_LastResolvedTranslationWins ==
    [][ /\ \A k \in 1..Len(tasks') :
             ( /\ tasks'[k].handler = "handleLanguageChange"
               /\ tasks'[k].awaits # <<>>
               /\ tasks'[k].lang # "English" ) =>
                  /\ calls'[tasks'[k].awaits[1]].requests = 1
                  /\ calls'[tasks'[k].awaits[1]].lang = tasks'[k].lang
                  /\ \A j \in 1..Len(tasks') :
                       (j # k /\ tasks'[j].awaits # <<>>) =>
                           tasks'[j].awaits[1] # tasks'[k].awaits[1]
        /\ \A k \in LanguageChanges :
             (tasks[k].stage = "awaiting" /\ tasks'[k].stage = "done") =>
                  /\ content'.verseText = calls'[tasks[k].awaits[1]].result
                  /\ content'.verseReference = calls'[tasks[k].awaits[2]].result
      ]_vars

\* The language was changed to Hindi and then, before the first translation
\* had resolved, to Tamil; the Tamil answer came first and the Hindi answer
\* last: the language is Tamil and the verse text is the Hindi translation.
C24_Witness ==
    /\ Len(tasks) = 2
    /\ tasks[1].handler = "handleLanguageChange" /\ tasks[1].lang = "Hindi"
    /\ tasks[2].handler = "handleLanguageChange" /\ tasks[2].lang = "Tamil"
    /\ tasks[1].stage = "done" /\ tasks[2].stage = "done"
    /\ Len(calls) = 4
    /\ calls[1].requests = 1 /\ calls[3].requests = 1
    /\ calls[3].text = ForGodSoLoved
    /\ calls[3].result = VerseInTamil
    /\ content.language = "Tamil"
    /\ content.verseText = VerseInHindi

\* ------------------------------------------------------------------ C25
\* C25: when the lookup of handleSearchVerse returns null, the handler shows
\* an alert that contains the query it looked up (the interpreted one, if it
\* was interpreted), leaves verseText, verseReference and verseReferenceEnglish
\* as they are, starts no translation, and isSearching is false at its end.
C25_NotFoundOnlyAlerts ==
    [][ \A k \in 1..Len(tasks) :
          ( /\ tasks[k].handler = "handleSearchVerse"
            /\ tasks[k].stage = "fetching"
            /\ fetches'[tasks[k].fetch].status = "returned"
            /\ fetches'[tasks[k].fetch].result = <<>> ) =>
               /\ tasks'[k].stage = "done"
               /\ Len(ui'.alerts) = Len(ui.alerts) + 1
               /\ ui'.alerts[Len(ui'.alerts)].query = fetches[tasks[k].fetch].reference
               /\ fetches[tasks[k].fetch].reference # <<>>
               /\ content'.verseText = content.verseText
               /\ content'.verseReference = content.verseReference
               /\ content'.verseReferenceEnglish = content.verseReferenceEnglish
               /\ calls' = calls
               /\ Len(tasks') = Len(tasks)
               /\ ~ui'.isSearching
      ]_vars

\* With Hindi as the language, a query typed in Devanagari letters was
\* interpreted as John 3:16, both lookups of it failed, and the alert names
\* John 3:16.
C25_Witness ==
    \E k \in 1..Len(tasks) :
        /\ tasks[k].handler = "handleSearchVerse"
        /\ tasks[k].stage = "done"
        /\ tasks[k].lang = "Hindi"
        /\ tasks[k].query = QueryLocal
        /\ fetches[1].status = "returned" /\ fetches[1].result = <<>>
        /\ fetches[1].attempts = << VersionKjv, VersionWeb >>
        /\ ui.alerts = << [ message |-> "Verse not found for", query |-> ReferenceJohn ] >>
        /\ ~ui.isSearching
        /\ content.verseText = ForGodSoLoved

\* ------------------------------------------------------------------ C29
\* C29: verseReferenceEnglish is only ever set to the reference a verse lookup
\* returned; a step in which only invocations of handleLanguageChange start or
\* finish leaves it as it is; and a handleLanguageChange that translates the
\* reference hands the service verseReferenceEnglish whenever that field is
\* not empty, never the reference shown.
OnlyLanguageChangesRun ==
    /\ tasks' # tasks
    /\ \A k \in 1..Len(tasks') :
         (k > Len(tasks) \/ tasks'[k] # tasks[k]) => tasks'[k].handler = "handleLanguageChange"

C29_EnglishReferenceFromLookupOnly ==
    [][ /\ content'.verseReferenceEnglish # content.verseReferenceEnglish =>
             \E j \in 1..Len(fetches') :
                 /\ fetches'[j].result # <<>>
                 /\ content'.verseReferenceEnglish = fetches'[j].result[1].reference
        /\ OnlyLanguageChangesRun =>
             content'.verseReferenceEnglish = content.verseReferenceEnglish
        /\ \A k \in (Len(tasks) + 1)..Len(tasks') :
             ( /\ tasks'[k].handler = "handleLanguageChange"
               /\ tasks'[k].mode = "VERSE"
               /\ tasks'[k].awaits # <<>>
               /\ content.verseReferenceEnglish # <<>> ) =>
                  /\ calls'[tasks'[k].awaits[2]].fn = "translateReference"
                  /\ calls'[tasks'[k].awaits[2]].text = content.verseReferenceEnglish
      ]_vars

\* The language was changed to Hindi and, after the verse and the reference
\* had been translated, to Tamil: the second change asked for a translation of
\* the Hindi verse text and of the reference John 3:16.
C29_Witness ==
    /\ Len(tasks) = 2 /\ Len(calls) = 4
    /\ tasks[1].handler = "handleLanguageChange" /\ tasks[1].lang = "Hindi"
    /\ tasks[2].handler = "handleLanguageChange" /\ tasks[2].lang = "Tamil"
    /\ calls[2].result = ReferenceInHindi
    /\ calls[3].text = VerseInHindi
    /\ calls[4].fn = "translateReference"
    /\ calls[4].text = ReferenceJohn
    /\ content.verseReferenceEnglish = ReferenceJohn

\* ------------------------------------------------------------------ C26
\* C26: a move event of a Move session is handled by one listener and makes
\* one update, in one step, that writes the layer's new x and new y together:
\* after the step both coordinates are the clamped sums of the coordinate
\* before the event (for a logo or photo coordinate of 0, of the layer's
\* default, see C12) and this event's delta, and no other geometry field has
\* changed.
DefaultPosition(id) ==
    CASE id = "text"  -> [x |-> 0, y |-> 0]
      [] id = "logo"  -> [x |-> Pct(10), y |-> Pct(10)]
      [] id = "photo" -> [x |-> Pct(90), y |-> Pct(10)]

ReflectsEvent(new, cur, delta, default) ==
    \/ new = Clamp(PosMin, PosMax, cur + delta)
    \/ cur = 0 /\ new = Clamp(PosMin, PosMax, default + delta)

C26_MoveWritesBothCoordinates ==
    [][ \A id \in LayerIds :
          (MoveSession /\ activeDragId = id /\ events' = Append(events, "move")) =>
              LET dx == DeltaXPercent(pointer', dragStart, scale)
                  dy == DeltaYPercent(pointer', dragStart, scale)
                  cur == PositionOf(data, id)
                  new == PositionOf(data', id)
              IN  /\ Len(moveListeners) = 1
                  /\ sessionMoves' = sessionMoves + 1
                  /\ ReflectsEvent(new.x, cur.x, dx, DefaultPosition(id).x)
                  /\ ReflectsEvent(new.y, cur.y, dy, DefaultPosition(id).y)
                  /\ \A other \in LayerIds \ {id} :
                       PositionOf(data', other) = PositionOf(data, other)
                  /\ \A any \in LayerIds : WidthOf(data', any) = WidthOf(data, any)
                  /\ data'.textScale = data.textScale
      ]_vars

\* One move event of a Move session on the text has changed both coordinates
\* of the text.
C26_Witness ==
    /\ MoveSession /\ activeDragId = "text"
    /\ events = << "down", "move" >>
    /\ data.textPosition.x # sessionBase.textPosition.x
    /\ data.textPosition.y # sessionBase.textPosition.y

\* ---------------------- pointer sessions while a translation is in flight

\* The provider settles the requests of invocation k while the canvas is in
\* use: the handler merges its result into the PosterData.
TranslationArrives(k, responses) ==
    /\ mounted
    /\ Len(events) < MaxEvents
    /\ tasks[k].stage # "done"
    /\ \E i \in 1..Len(tasks[k].awaits) : calls[tasks[k].awaits[i]].status = "pending"
    /\ Merges(RunReady([EditorState EXCEPT !.calls = CallsSettled(k, responses)]))
    /\ events' = Append(events, "merge")
    /\ UNCHANGED <<data, ctrl, scale, onUpdateData, mounted, moveListeners, upListeners,
                   effectHandler, buttonHeld, pointer, sessionOrigin, sessionBase,
                   sessionMoves, clampHit, typed>>

\* The user has just changed the language to Hindi: the translation of the
\* verse and of its reference is in flight.
SessionInit ==
    /\ CanvasInit
    /\ scale = 1
    /\ typed = 0
    /\ fetches = <<>>
    /\ \E st \in { handleLanguageChange(
                      [ content |-> InitialContent, ui |-> InitialUi, tasks |-> <<>>,
                        calls |-> <<>>, fetches |-> <<>> ], "Hindi", TRUE) } :
         /\ content = st.content
         /\ view = Render(st.content)
         /\ ui = st.ui
         /\ tasks = st.tasks
         /\ calls = st.calls

SessionNext ==
    \/ \E id \in LayerIds, action \in Actions, e \in Points : MouseDown(id, action, e)
    \/ \E e \in Points : MouseMove(e)
    \/ MouseUp
    \/ GestureInterrupted
    \/ Unmount
    \/ \E k \in 1..Len(tasks) : \E responses \in AnswersToCallsOf(k) :
         TranslationArrives(k, responses)

SessionSpec == SessionInit /\ [][SessionNext]_vars

\* ------------------------------------------------------------------ C30
\* C30: a pointer event changes at most the one field its session targets on
\* the active layer: a move event of a Move session the layer's position, of a
\* ResizeWidth session (and of ScaleUniform on logo or photo) the layer's
\* width, of ScaleUniform on the text the text scale; every other geometry
\* field and every non-geometry field of the document is as before the event,
\* also when a translation result was merged in the middle of the session.
TargetField ==
    IF MoveSession
    THEN CASE activeDragId = "text" -> "textPosition"
           [] activeDragId = "logo" -> "logoPosition"
           [] activeDragId = "photo" -> "photoPosition"
    ELSE IF ScaleSession THEN "textScale"
    ELSE CASE activeDragId = "text" -> "textWidth"
           [] activeDragId = "logo" -> "logoWidth"
           [] activeDragId = "photo" -> "photoWidth"

C30_PointerEventWritesTargetOnly ==
    [][ (events' # events /\ events'[Len(events')] # "merge") =>
            /\ content' = content
            /\ IF Dragging /\ events'[Len(events')] = "move"
               THEN \A f \in DOMAIN data \ {TargetField} : data'[f] = data[f]
               ELSE data' = data
      ]_vars

\* The Hindi translation arrived between the mouse-down and a move event of a
\* Move session on the text: the text has moved and the verse is the Hindi
\* one.
C30_Witness ==
    /\ events = << "down", "merge", "move" >>
    /\ MoveSession /\ activeDragId = "text"
    /\ data.textPosition # sessionBase.textPosition
    /\ content.verseText = VerseInHindi
    /\ content.verseReference = ReferenceInHindi
    /\ content.language = "Hindi"

\* ------------------------------- the render among the other fields' changes

\* PosterPreview is rendered with a verse text of three samples, in either
\* mode; the build has no API key, so that a change of language changes the
\* language alone.
PreviewInit ==
    /\ CanvasInit
    /\ scale = 1
    /\ \E m \in AppModes, t \in { <<>>, ForGodSoLoved, TheLordIsMyShepherd } :
         content = [InitialContent EXCEPT !.mode = m, !.verseText = t]
    /\ view = Render(content)
    /\ typed = 0
    /\ calls = <<>>
    /\ fetches = <<>>
    /\ tasks = <<>>
    /\ ui = [InitialUi EXCEPT !.apiKey = FALSE]

\* Pointer events on the text's move region, a colour preset, a language of
\* the menu, and an edit of the verse text.
PreviewNext ==
    \/ \E e \in { [x |-> 0, y |-> 0], [x |-> 10, y |-> 10] } : MouseDown("text", "drag", e)
    \/ \E e \in { [x |-> 0, y |-> 0], [x |-> 10, y |-> 10] } : MouseMove(e)
    \/ MouseUp
    \/ \E color \in { << "#", "F", "E", "F", "0", "8", "A" >> } : SetTextColor(color)
    \/ \E newLang \in { "Hindi" } : LanguageChange(newLang)
    \/ \E piece \in { PieceGod } : TypeVerseText(piece)

PreviewSpec == PreviewInit /\ [][PreviewNext]_vars

\* ------------------------------------------------------------------ C28
\* C28: the highlight set is empty whenever the mode is not VERSE or the verse
\* text is empty; a step that leaves the verse text and the mode as they are
\* leaves the set as it is, whatever it does to the layer geometry, the drag
\* state, the language or the colour; and the set is the same in every state
\* reached with the same verse text in VERSE mode.
KeywordsOfSample(verseText) ==
    IF verseText = ForGodSoLoved THEN { "god", "world", "for" }
    ELSE { "lord", "shepherd", "the" }

C28_HighlightsDependOnVerseOnly ==
    [][ /\ (content'.mode # "VERSE" \/ content'.verseText = <<>>) =>
               view'.highlightedKeywords = {}
        /\ (content'.verseText = content.verseText /\ content'.mode = content.mode) =>
               view'.highlightedKeywords = view.highlightedKeywords
        /\ (content'.mode = "VERSE" /\ content'.verseText \in { ForGodSoLoved, TheLordIsMyShepherd }) =>
               view'.highlightedKeywords = KeywordsOfSample(content'.verseText)
      ]_vars

\* In VERSE mode the text was dragged away, the colour and the language were
\* changed, and the highlight set is the one of the verse text.
C28_Witness ==
    /\ content.mode = "VERSE"
    /\ content.verseText = ForGodSoLoved
    /\ content.textColor # InitialContent.textColor
    /\ content.language = "Hindi"
    /\ Dragging
    /\ data.textPosition # InitialData.textPosition
    /\ view.highlightedKeywords = { "god", "world", "for" }

\* ------------------------------------------- the canvas without a callback

\* PosterPreview is constructed with or without the optional onUpdateData
\* prop, at display scale 1.
CallbackInit ==
    /\ data = InitialData
    /\ activeDragId = NULL
    /\ dragAction = "drag"
    /\ dragStart = [x |-> 0, y |-> 0]
    /\ initialScale = 1000
    /\ initialWidth = 0
    /\ scale = 1
    /\ onUpdateData \in BOOLEAN
    /\ mounted = TRUE
    /\ moveListeners = <<>>
    /\ upListeners = <<>>
    /\ effectHandler = <<>>
    /\ buttonHeld = FALSE
    /\ events = <<>>
    /\ pointer = [x |-> 0, y |-> 0]
    /\ sessionOrigin = [x |-> 0, y |-> 0]
    /\ sessionBase = InitialData
    /\ sessionMoves = 0
    /\ clampHit = FALSE
    /\ content = InitialContent
    /\ view = Render(InitialContent)
    /\ typed = 0
    /\ calls = <<>>
    /\ PanelInit

CallbackSpec == CallbackInit /\ [][Next]_vars

\* ------------------------------------------------------------------ C31
\* C31: the geometry changes only in a mousemove step taken while Dragging: a
\* mouse-down and a mouseup leave every position, width and the text scale as
\* they are, a mousemove in Idle changes neither the geometry nor the
\* reference point, and without an onUpdateData callback a mousemove changes
\* neither of them either.
C31_GeometryChangesOnlyOnMoveWhileDragging ==
    [][ /\ data' # data => (LastEvent' = "move" /\ Dragging /\ onUpdateData)
        /\ LastEvent' \in { "down", "up" } => data' = data
        /\ (LastEvent' = "move" /\ Idle) => (data' = data /\ dragStart' = dragStart)
        /\ (LastEvent' = "move" /\ ~onUpdateData) => (data' = data /\ dragStart' = dragStart)
      ]_vars

\* Without a callback the pointer has moved away from the mouse-down of a Move
\* session: the geometry is the initial one and the reference point is still
\* the point of the mouse-down.
C31_Witness ==
    /\ ~onUpdateData
    /\ MoveSession
    /\ LastEvent = "move"
    /\ pointer # sessionOrigin
    /\ dragStart = sessionOrigin
    /\ data = InitialData

\* ------------------------------------------------------------------ C32
\* C32: in a session that resizes a width or scales the text, whenever the
\* pointer is at the point of the mouse-down the field the session writes has
\* the value it had at the mouse-down, for every layer, also after a move of
\* the session whose value was clamped at a bound.
C32_BackAtOriginRestoresBaseline ==
    /\ (WidthSession /\ pointer = sessionOrigin) =>
           WidthOf(data, activeDragId) = WidthOf(sessionBase, activeDragId)
    /\ (ScaleSession /\ pointer = sessionOrigin) =>
           data.textScale = sessionBase.textScale

\* The text's width handle was dragged until the width was clamped, and the
\* pointer is back at the point of the mouse-down: the width is the baseline.
C32_Witness ==
    /\ WidthSession
    /\ activeDragId = "text"
    /\ clampHit
    /\ LastEvent = "move"
    /\ sessionMoves = 2
    /\ pointer = sessionOrigin
    /\ data.textWidth = sessionBase.textWidth

\* ------------------------------------------------------------------ C33
\* C33: in a Move session, whenever the pointer is at the point of the
\* mouse-down the dragged layer is at the position it had at the mouse-down,
\* also after a move of the session that was clamped at an edge of the canvas.
C33_BackAtOriginRestoresPosition ==
    (MoveSession /\ pointer = sessionOrigin) =>
        PositionOf(data, activeDragId) = PositionOf(sessionBase, activeDragId)

\* ------------------------------------------------------------------ C34
\* C34: a mouse-down on a layer's width handle starts a session of that layer
\* with action 'resize', and one on its scale handle a session with action
\* 'scale': the handler of the move region, in which the handles are nested,
\* does not run after the handle's and does not make the action 'drag'.
C34_HandleDownKeepsItsAction ==
    [][ events' = Append(events, "down") =>
            \A id \in LayerIds, handle \in { "resize", "scale" } :
                MouseDown(id, handle, pointer') => (activeDragId' = id /\ dragAction' = handle)
      ]_vars

\* The last event is a mouse-down on the text's scale handle: the session
\* scales the text, from the scale the text had.
C34_Witness ==
    /\ LastEvent = "down"
    /\ activeDragId = "text"
    /\ dragAction = "scale"
    /\ initialScale = data.textScale
    /\ dragStart = pointer

\* ------------------------------------------------------------------ C35
\* C35: for every verse text, each word of the highlight set is the cleaned
\* form of at least one part of the rendered verse, and that part is rendered
\* highlighted: selection and render agree on every token, also on tokens
\* with characters that are neither letters or digits nor separators.
C35_SelectedWordsAreRendered ==
    content.mode = "VERSE" =>
        \A w \in view.highlightedKeywords :
            \E i \in 1..Len(view.verse) :
                /\ Str(CleanedForm(view.verse[i].part)) = w
                /\ view.verse[i].isHighlight

\* ------------------------------------------------------------------ C36
\* C36: isTranslating is true in every state in which an invocation of
\* handleLanguageChange or of handleTranslate has started its translations and
\* has not finished, also when two of them overlap, and it is false only
\* when there is none.
TranslationsInFlight ==
    { k \in 1..Len(tasks) :
        /\ tasks[k].handler \in { "handleLanguageChange", "handleTranslate" }
        /\ tasks[k].stage # "done" }

C36_TranslatingWhileAnyInFlight ==
    ui.isTranslating <=> TranslationsInFlight # {}

\* --------------------------------------------- keystrokes into the query

\* Keystrokes into the query field in one run.
MaxKeys == 2

\* The keys the user presses: a letter, and the two delimiters.
Keys == { "s", " ", "\n" }

\* One keystroke into the query field.  The field is a controlled input
\* (value={verseQuery}): the change event carries the value the field shows,
\* which is the state's, with the key appended.  handleSmartInput then runs
\* as for any change of the query: it writes the value at once, or it awaits
\* the request and has written nothing yet.
KeyTyped(key, hasCode) ==
    LET newVal == ui.verseQuery \o << key >>
        lastWord == WordToTransliterate(newVal, ui.isTransliterationEnabled, content.language)
    IN  /\ Len(tasks) < MaxKeys
        /\ IF lastWord = <<>> \/ ReturnsWordAtOnce(hasCode, lastWord)
           THEN /\ ui' = [ui EXCEPT !.verseQuery = newVal]
                /\ tasks' = Append(tasks, SmartInputTask(newVal, lastWord, "done",
                                     [kind |-> "none", status |-> "", list |-> <<>>],
                                     StringValue(lastWord), newVal))
           ELSE /\ ui' = ui
                /\ tasks' = Append(tasks, SmartInputTask(newVal, lastWord, "awaiting",
                                     [kind |-> "none", status |-> "", list |-> <<>>],
                                     Undefined, <<>>))
        /\ UNCHANGED <<canvas, edit, calls, fetches>>

\* The content language is Hindi and the query field holds a word or is empty.
KeysInit ==
    /\ CanvasInit
    /\ scale = 1
    /\ content = [InitialContent EXCEPT !.language = "Hindi"]
    /\ view = Render(content)
    /\ typed = 0
    /\ calls = <<>>
    /\ fetches = <<>>
    /\ tasks = <<>>
    /\ \E verseQuery \in { <<>>, WordGrace } :
         ui = [InitialUi EXCEPT !.verseQuery = verseQuery]

KeysNext ==
    \/ \E key \in Keys, hasCode \in BOOLEAN : KeyTyped(key, hasCode)
    \/ \E k \in 1..Len(tasks), json \in InputToolsResponses : TransliterationSettles(k, json)

KeysSpec == KeysInit /\ [][KeysNext]_vars

\* ------------------------------------------------------------------ C37
\* C37: no keystroke is lost.  When the request of an invocation of
\* handleSmartInput settles, the query field still contains every key that
\* was typed, and written to the field, while the request was pending.
Contains(text, ch) == \E i \in 1..Len(text) : text[i] = ch

C37_NoKeystrokeLost ==
    [][ \A k \in 1..Len(tasks) :
            (tasks[k].stage = "awaiting" /\ tasks'[k].stage = "done") =>
                \A j \in (k + 1)..Len(tasks) :
                    tasks[j].stage = "done" =>
                        Contains(ui'.verseQuery, tasks[j].newVal[Len(tasks[j].newVal)])
      ]_vars

\* ------------------------------------------------------------------ C38
\* C38: at most one verse search is in flight at a time: while isSearching is
\* true no run of handleSearchVerse starts, from the search button or from
\* the Enter key, and isSearching is true exactly while a search awaits its
\* interpretation or its lookup.
SearchesInFlight ==
    { k \in 1..Len(tasks) :
        /\ tasks[k].handler = "handleSearchVerse"
        /\ tasks[k].stage \in { "interpreting", "fetching" } }

C38_OneSearchAtATime ==
    /\ Cardinality(SearchesInFlight) <= 1
    /\ ui.isSearching <=> SearchesInFlight # {}

\* ------------------------------------------ the handlers, run to their end

\* As EditorInit, the query field possibly empty.
LiveInit ==
    /\ CanvasInit
    /\ scale = 1
    /\ content = [InitialContent EXCEPT !.verseText = ForGodSoLoved]
    /\ view = Render(content)
    /\ typed = 0
    /\ calls = <<>>
    /\ fetches = <<>>
    /\ tasks = <<>>
    /\ \E verseQuery \in { <<>>, ReferenceJohn, QueryLocal }, apiKey \in BOOLEAN :
         ui = [InitialUi EXCEPT !.verseQuery = verseQuery, !.apiKey = apiKey]

\* A request to the provider is pending, and the steps in which one settles;
\* a lookup awaits its attempt, and the steps in which the attempt comes to an
\* outcome.  A request is pending exactly when EditorCallsSettle is enabled
\* for an invocation, a lookup exactly when EditorAttemptSettles is.
RequestPending == \E c \in 1..Len(calls) : calls[c].status = "pending"

RequestSettles ==
    \E c \in 1..Len(calls) : calls[c].status = "pending" /\ calls'[c].status = "returned"

AttemptPending == \E j \in 1..Len(fetches) : fetches[j].status = "pending"

AttemptComesToOutcome ==
    \E j \in 1..Len(fetches) : fetches[j].status = "pending" /\ fetches'[j] # fetches[j]

\* Every request to the provider and every attempt of a lookup comes to an
\* outcome (weak fairness of the two settling steps, with their enabling
\* conditions written out); the user is free to start a handler or not.
LiveSpec ==
    /\ LiveInit
    /\ [][EditorNext]_vars
    /\ ([]<>(~RequestPending) \/ []<><<RequestSettles>>_vars)
    /\ ([]<>(~AttemptPending) \/ []<><<AttemptComesToOutcome>>_vars)

\* ------------------------------------------------------------------ C39
\* C39: every verse search, language change and translate operation that has
\* started comes to its end with its busy flag reset (isSearching for a
\* search, isTranslating for the other two), whether its calls succeed or
\* fail, given that every external call settles; and with an empty query no
\* search starts and isSearching stays false.
BusyFlag(k) ==
    IF tasks[k].handler = "handleSearchVerse" THEN ui.isSearching ELSE ui.isTranslating

\* Every operation that has started has come to its end with its flag reset.
AllCompleted == \A k \in 1..Len(tasks) : tasks[k].stage = "done" /\ ~BusyFlag(k)

C39_StartedOperationsComplete ==
    /\ []<>AllCompleted
    /\ [](ui.verseQuery = <<>> =>
            /\ ~ui.isSearching
            /\ \A k \in 1..Len(tasks) : tasks[k].handler # "handleSearchVerse")

\* A search whose lookup found nothing and a language change whose request
\* for the verse text was rejected have both come to their end, and no flag
\* is set.
C39_Witness ==
    /\ \E k \in 1..Len(tasks) :
         /\ tasks[k].handler = "handleSearchVerse"
         /\ tasks[k].stage = "done"
         /\ tasks[k].found = <<>>
    /\ \E k \in 1..Len(tasks) :
         /\ tasks[k].handler = "handleLanguageChange"
         /\ tasks[k].stage = "done"
         /\ tasks[k].awaits # <<>>
         /\ calls[tasks[k].awaits[1]].response.kind = "rejected"
    /\ ~ui.isSearching
    /\ ~ui.isTranslating

====
